---- MODULE Spec2Model ----
(***************************************************************************)
(* Model of the rillcoin/rill community tooling:                           *)
(*   marketing/scripts/setup_discord.py      (full provisioning engine)    *)
(*   marketing/scripts/add_feed_channels.py  (incremental add variant)     *)
(* Python values are modelled as follows: a str is a TLA+ string, a dict   *)
(* is a record / function on strings, a list is a sequence, None is NONE.  *)
(* A permission bitmask is the set of its bit positions, so that `|` is    *)
(* set union and masks above 2^31 stay representable.                      *)
(***************************************************************************)
EXTENDS Integers, Sequences, FiniteSets, TLC

(* ------------------------------------------------------------------ *)
(* Python helpers                                                      *)
(* ------------------------------------------------------------------ *)

\* None
NONE == [kind |-> "none"]

\* a JSON object (dict) returned by the transport
JDict(fields) == [kind |-> "dict", val |-> fields]

\* a JSON array (list) returned by the transport
JList(items) == [kind |-> "list", val |-> items]

\* Python truthiness of a transport result: None, {} and [] are falsy
Truthy(j) == j.kind # "none" /\ DOMAIN j.val # {}

\* isinstance(j, list)
IsList(j) == j.kind = "list"

\* Python truthiness of a str
StrTruthy(s) == s # ""

\* d.get(k, default) on a dict modelled as a record
Get(d, k, default) == IF k \in DOMAIN d THEN d[k] ELSE default

\* the range of a sequence
Range(s) == {s[i] : i \in DOMAIN s}

\* [x for x in s if Test(x)]
RECURSIVE SelectSeqIdx(_, _)
SelectSeqIdx(s, keep) ==
  IF s = <<>> THEN <<>>
  ELSE LET n == Len(s)
           rest == SelectSeqIdx(SubSeq(s, 1, n - 1), keep)
       IN IF n \in keep THEN Append(rest, s[n]) ELSE rest

(* ------------------------------------------------------------------ *)
(* Permission bit constants (setup_discord.py 150-205)                 *)
(* ------------------------------------------------------------------ *)

\* 1 << n
Bit(n) == {n}

PERM_VIEW_CHANNEL == Bit(10)
PERM_SEND_MESSAGES == Bit(11)
PERM_MANAGE_MESSAGES == Bit(13)
PERM_EMBED_LINKS == Bit(14)
PERM_ATTACH_FILES == Bit(15)
PERM_MENTION_EVERYONE == Bit(17)
PERM_USE_VOICE == Bit(21)
PERM_MANAGE_CHANNELS == Bit(4)
PERM_MANAGE_ROLES == Bit(28)
PERM_KICK_MEMBERS == Bit(1)
PERM_BAN_MEMBERS == Bit(2)
PERM_MANAGE_THREADS == Bit(34)
PERM_TIMEOUT_MEMBERS == Bit(40)
PERM_MUTE_MEMBERS == Bit(22)
PERM_DEAFEN_MEMBERS == Bit(23)
PERM_MOVE_MEMBERS == Bit(24)
PERM_VIEW_AUDIT_LOG == Bit(7)
PERM_ADMINISTRATOR == Bit(3)
PERM_CREATE_INSTANT_INVITE == Bit(0)
PERM_ADD_REACTIONS == Bit(6)
PERM_READ_MESSAGES_HISTORY == Bit(16)
PERM_USE_APPLICATION_COMMANDS == Bit(31)

STANDARD_MEMBER_PERMS ==
  PERM_VIEW_CHANNEL \cup PERM_SEND_MESSAGES \cup PERM_EMBED_LINKS
    \cup PERM_ATTACH_FILES \cup PERM_ADD_REACTIONS
    \cup PERM_READ_MESSAGES_HISTORY \cup PERM_USE_APPLICATION_COMMANDS

CORE_TEAM_PERMS ==
  STANDARD_MEMBER_PERMS \cup PERM_MANAGE_MESSAGES \cup PERM_MANAGE_THREADS
    \cup PERM_MUTE_MEMBERS \cup PERM_DEAFEN_MEMBERS \cup PERM_MOVE_MEMBERS

MODERATOR_PERMS ==
  STANDARD_MEMBER_PERMS \cup PERM_KICK_MEMBERS \cup PERM_BAN_MEMBERS
    \cup PERM_MANAGE_MESSAGES \cup PERM_MANAGE_THREADS
    \cup PERM_VIEW_AUDIT_LOG \cup PERM_TIMEOUT_MEMBERS
    \cup PERM_MUTE_MEMBERS \cup PERM_CREATE_INSTANT_INVITE

(* ------------------------------------------------------------------ *)
(* Channel type and overwrite type constants (setup_discord.py 318-329) *)
(* ------------------------------------------------------------------ *)

CH_TEXT == 0
CH_VOICE == 2
CH_CATEGORY == 4
CH_ANNOUNCEMENT == 5
CH_FORUM == 15

OW_ROLE == 0
OW_MEMBER == 1

(* ------------------------------------------------------------------ *)
(* Desired-state catalog (setup_discord.py 211-312, 342-628)           *)
(* ------------------------------------------------------------------ *)

ROLES ==
  << [name |-> "Founder", color |-> 16347926, hoist |-> TRUE, mentionable |-> FALSE,
      permissions |-> PERM_ADMINISTRATOR],
     [name |-> "Core Team", color |-> 3900150, hoist |-> TRUE, mentionable |-> FALSE,
      permissions |-> CORE_TEAM_PERMS],
     [name |-> "Moderator", color |-> 2775692, hoist |-> TRUE, mentionable |-> FALSE,
      permissions |-> MODERATOR_PERMS],
     [name |-> "Contributor", color |-> 4885236, hoist |-> TRUE, mentionable |-> FALSE,
      permissions |-> STANDARD_MEMBER_PERMS],
     [name |-> "Testnet Participant", color |-> 6152434, hoist |-> TRUE, mentionable |-> FALSE,
      permissions |-> STANDARD_MEMBER_PERMS],
     [name |-> "Bug Hunter", color |-> 14251782, hoist |-> FALSE, mentionable |-> FALSE,
      permissions |-> STANDARD_MEMBER_PERMS],
     [name |-> "Ambassador", color |-> 3900150, hoist |-> FALSE, mentionable |-> FALSE,
      permissions |-> STANDARD_MEMBER_PERMS],
     [name |-> "Member", color |-> 0, hoist |-> FALSE, mentionable |-> FALSE,
      permissions |-> STANDARD_MEMBER_PERMS],
     [name |-> "Unverified", color |-> 0, hoist |-> FALSE, mentionable |-> FALSE,
      permissions |-> PERM_VIEW_CHANNEL \cup PERM_READ_MESSAGES_HISTORY],
     [name |-> "Announcements Ping", color |-> 0, hoist |-> FALSE, mentionable |-> FALSE,
      permissions |-> STANDARD_MEMBER_PERMS],
     [name |-> "Testnet Ping", color |-> 0, hoist |-> FALSE, mentionable |-> FALSE,
      permissions |-> STANDARD_MEMBER_PERMS],
     [name |-> "Dev Updates Ping", color |-> 0, hoist |-> FALSE, mentionable |-> FALSE,
      permissions |-> STANDARD_MEMBER_PERMS],
     [name |-> "AMA Ping", color |-> 0, hoist |-> FALSE, mentionable |-> FALSE,
      permissions |-> STANDARD_MEMBER_PERMS],
     [name |-> "Governance Ping", color |-> 0, hoist |-> FALSE, mentionable |-> FALSE,
      permissions |-> STANDARD_MEMBER_PERMS] >>

SERVER_STRUCTURE ==
  <<
     [category |-> "START HERE",
      perm_template |-> "read_only",
      channels |-> <<
        [name |-> "welcome",
         type |-> CH_TEXT,
         topic |-> "Learn what RillCoin is and how to get started in this server.",
         perm_template |-> "read_only"],
        [name |-> "rules",
         type |-> CH_TEXT,
         topic |-> "Community standards and moderation policy. Read before posting.",
         perm_template |-> "read_only"],
        [name |-> "roles-and-verification",
         type |-> CH_TEXT,
         topic |-> "Verify your account to unlock the server. Learn how roles are earned.",
         perm_template |-> "read_only"],
        [name |-> "faq",
         type |-> CH_TEXT,
         topic |-> "Common questions about concentration decay, the testnet, wallets, and the roadmap.",
         perm_template |-> "read_only"] >>],
     [category |-> "ANNOUNCEMENTS",
      perm_template |-> "read_only",
      channels |-> <<
        [name |-> "announcements",
         type |-> CH_ANNOUNCEMENT,
         topic |-> "Major releases, milestones, and protocol updates from the Core Team.",
         perm_template |-> "read_only"],
        [name |-> "dev-updates",
         type |-> CH_ANNOUNCEMENT,
         topic |-> "Technical progress notes from developers. Shipped code, not speculation.",
         perm_template |-> "read_only"],
        [name |-> "testnet-status",
         type |-> CH_TEXT,
         topic |-> "Live testnet health: block height, peer count, last decay event.",
         perm_template |-> "read_only"] >>],
     [category |-> "COMMUNITY",
      perm_template |-> "community",
      channels |-> <<
        [name |-> "general",
         type |-> CH_TEXT,
         topic |-> "Open discussion about RillCoin. The main gathering channel.",
         perm_template |-> "community",
         slowmode |-> 3],
        [name |-> "introductions",
         type |-> CH_FORUM,
         topic |-> "New here? Start a thread and tell us what brought you to the project.",
         perm_template |-> "community",
         thread_rate_limit |-> 60],
        [name |-> "price-and-markets",
         type |-> CH_TEXT,
         topic |-> "Market discussion only. No financial advice, no predictions, no coordination.",
         perm_template |-> "community",
         slowmode |-> 30],
        [name |-> "off-topic",
         type |-> CH_TEXT,
         topic |-> "Everything unrelated to RillCoin. Tech, culture, whatever flows.",
         perm_template |-> "community",
         slowmode |-> 5],
        [name |-> "memes",
         type |-> CH_TEXT,
         topic |-> "Community art and humor. Keep it related to Rill themes.",
         perm_template |-> "community"] >>],
     [category |-> "TECHNICAL",
      perm_template |-> "community",
      channels |-> <<
        [name |-> "protocol",
         type |-> CH_TEXT,
         topic |-> "Decay mechanics, consensus rules, fee structure, and proof-of-work design.",
         perm_template |-> "community",
         slowmode |-> 5],
        [name |-> "development",
         type |-> CH_TEXT,
         topic |-> "Codebase discussion, contribution questions, and architecture decisions.",
         perm_template |-> "community",
         slowmode |-> 3],
        [name |-> "research",
         type |-> CH_FORUM,
         topic |-> "Longer-form technical analysis, external papers, and economic modeling.",
         perm_template |-> "community",
         thread_rate_limit |-> 300],
        [name |-> "node-operators",
         type |-> CH_TEXT,
         topic |-> "Running a node or mining. Configuration, sync issues, hardware discussion.",
         perm_template |-> "community",
         slowmode |-> 5] >>],
     [category |-> "TESTNET",
      perm_template |-> "community",
      channels |-> <<
        [name |-> "testnet-general",
         type |-> CH_TEXT,
         topic |-> "General testnet discussion, questions, and coordination.",
         perm_template |-> "community",
         slowmode |-> 5],
        [name |-> "bug-reports",
         type |-> CH_FORUM,
         topic |-> "Structured bug reports only. Use the pinned template. Each report becomes a thread.",
         perm_template |-> "community",
         thread_rate_limit |-> 300],
        [name |-> "testnet-wallets",
         type |-> CH_TEXT,
         topic |-> "Share testnet wallet addresses for testing. Mainnet addresses are not permitted here.",
         perm_template |-> "community",
         slowmode |-> 10],
        [name |-> "faucet",
         type |-> CH_TEXT,
         topic |-> "Request testnet coins with /faucet. One request per user per 24 hours.",
         perm_template |-> "community",
         slowmode |-> 10] >>],
     [category |-> "GOVERNANCE",
      perm_template |-> "community",
      channels |-> <<
        [name |-> "governance-general",
         type |-> CH_TEXT,
         topic |-> "Discussion of governance process, philosophy, and community direction.",
         perm_template |-> "governance",
         slowmode |-> 10],
        [name |-> "proposals",
         type |-> CH_FORUM,
         topic |-> "Formal improvement proposals. Use the structured format: title, summary, motivation, specification.",
         perm_template |-> "governance",
         thread_rate_limit |-> 300],
        [name |-> "voting",
         type |-> CH_TEXT,
         topic |-> "Governance vote results and links. Active when on-chain voting launches.",
         perm_template |-> "read_only"] >>],
     [category |-> "SUPPORT",
      perm_template |-> "community",
      channels |-> <<
        [name |-> "support-general",
         type |-> CH_TEXT,
         topic |-> "Public support for wallet setup, sync issues, and decay calculation questions.",
         perm_template |-> "community",
         slowmode |-> 5],
        [name |-> "create-ticket",
         type |-> CH_TEXT,
         topic |-> "Open a private support ticket with the team. Click the button below to start.",
         perm_template |-> "read_only"] >>],
     [category |-> "TEAM",
      perm_template |-> "team_only",
      channels |-> <<
        [name |-> "team-general",
         type |-> CH_TEXT,
         topic |-> "Day-to-day coordination.",
         perm_template |-> "team_only"],
        [name |-> "mod-log",
         type |-> CH_TEXT,
         topic |-> "Automated moderation action log.",
         perm_template |-> "team_only"],
        [name |-> "incident-response",
         type |-> CH_TEXT,
         topic |-> "Active incident handling.",
         perm_template |-> "team_only"],
        [name |-> "community-feedback",
         type |-> CH_TEXT,
         topic |-> "Digested community feedback for the dev team.",
         perm_template |-> "team_only"] >>],
     [category |-> "BOTS",
      perm_template |-> "community",
      channels |-> <<
        [name |-> "bot-commands",
         type |-> CH_TEXT,
         topic |-> "Run bot commands here. Keeps other channels clean.",
         perm_template |-> "community"],
        [name |-> "github-feed",
         type |-> CH_TEXT,
         topic |-> "Automated commits, pull requests, and releases from the RillCoin repository.",
         perm_template |-> "read_only"],
        [name |-> "twitter-feed",
         type |-> CH_TEXT,
         topic |-> "Automated feed of posts from @RillCoin on X.",
         perm_template |-> "read_only"],
        [name |-> "crypto-news",
         type |-> CH_TEXT,
         topic |-> "Aggregated crypto industry news from curated RSS sources. Powered by MonitoRSS.",
         perm_template |-> "read_only"],
        [name |-> "price-ticker",
         type |-> CH_TEXT,
         topic |-> "Auto-updating price data for BTC, ETH, and top 20 by market cap. Powered by CoinGecko Bot.",
         perm_template |-> "read_only"],
        [name |-> "regulatory-watch",
         type |-> CH_TEXT,
         topic |-> "Crypto regulation and legal news from SEC, CFTC, and industry sources. Powered by MonitoRSS.",
         perm_template |-> "read_only"],
        [name |-> "whale-alerts",
         type |-> CH_TEXT,
         topic |-> "Large transaction alerts on major chains. Powered by Whale Alert Bot.",
         perm_template |-> "read_only"] >>]
  >>


\* "URL_PLACEHOLDER" in msg: the text of a message body is a sequence of
\* tokens and the test is containment of the placeholder token
HasPlaceholder(msg) ==
  \E k \in DOMAIN msg.text : msg.text[k] = "URL_PLACEHOLDER"

\* a message body of the catalog: tag identifies the message (channel name,
\* position), text is its token sequence, with the placeholder token when
\* the source text carries an unresolved link
Body(tag, placeholder) ==
  [tag |-> tag,
   text |-> IF placeholder THEN <<"text", "URL_PLACEHOLDER", "text">>
                           ELSE <<"text">>]

\* one entry of the PINNED_MESSAGES dict: channel name -> list of bodies;
\* flags[k] tells whether message k of the source contains the placeholder
Entry(name, flags) ==
  [name |-> name,
   messages |-> [k \in DOMAIN flags |-> Body(<<name, k>>, flags[k])]]

\* PINNED_MESSAGES as written in the source (dict order preserved)
PINNED_MESSAGES ==
  << Entry("welcome", <<FALSE, TRUE>>),
     Entry("rules", <<FALSE, FALSE>>),
     Entry("roles-and-verification", <<FALSE, TRUE>>),
     Entry("faq", <<TRUE, TRUE, TRUE>>),
     Entry("general", <<FALSE>>),
     Entry("price-and-markets", <<FALSE>>),
     Entry("protocol", <<FALSE, TRUE>>),
     Entry("development", <<TRUE>>),
     Entry("research", <<FALSE>>),
     Entry("node-operators", <<TRUE, TRUE>>),
     Entry("testnet-general", <<TRUE>>),
     Entry("bug-reports", <<TRUE>>),
     Entry("faucet", <<TRUE>>),
     Entry("governance-general", <<TRUE>>),
     Entry("proposals", <<FALSE>>),
     Entry("support-general", <<TRUE>>),
     Entry("bot-commands", <<FALSE>>),
     Entry("crypto-news", <<FALSE>>),
     Entry("price-ticker", <<FALSE>>),
     Entry("regulatory-watch", <<FALSE>>),
     Entry("whale-alerts", <<FALSE>>) >>

\* PINNED_MESSAGES.get(name, [])
PinnedGet(pm, name) ==
  IF \E k \in DOMAIN pm : pm[k].name = name
  THEN pm[CHOOSE k \in DOMAIN pm : pm[k].name = name].messages
  ELSE <<>>

(* ------------------------------------------------------------------ *)
(* State                                                               *)
(* ------------------------------------------------------------------ *)

VARIABLES
  catalog,        \* module globals ROLES, SERVER_STRUCTURE, PINNED_MESSAGES
  dry_run,        \* --dry-run
  pc,             \* position of the running script
  exit_code,      \* NONE while running or after a normal return, else sys.exit's
  role_ids,       \* ServerSetup.role_ids / main's role_ids: name -> id
  channel_ids,    \* ServerSetup.channel_ids: name -> id
  channels,       \* the list returned by GET /guilds/{id}/channels
  idx,            \* loop index over channels / ROLES / NEW_CHANNELS
  cat_idx,        \* loop index over SERVER_STRUCTURE
  ch_idx,         \* loop index over a category's channels
  cat_id,         \* id of the category being filled
  pin_idx,        \* loop index over the channels that get pins
  msg_idx,        \* loop index over a channel's messages
  msg_id,         \* id of the message just sent
  bots_category_id,         \* add_feed_channels.main local
  existing_channel_names,   \* add_feed_channels.main local
  overwrites,               \* add_feed_channels.main local
  created_channels,         \* add_feed_channels.main local: name -> id
  log,            \* every HTTP request issued, in order
  budget,         \* how many more requests the remote service may fail
  run_no,         \* number of the current process invocation
  guild,          \* the remote server: channels, roles, messages, pins, next id
  guild0,         \* the remote server as it was before the first invocation
  call,           \* the transport call under way: function, method, path, json
  resp,           \* the HTTP response the call is looking at
  ret,            \* what the call returned
  clock,          \* the time
  wire,           \* every HTTP request that left the process, with its time
  answers,        \* every HTTP response received, with its time
  stdout,         \* the lines the transport printed
  template_arg,   \* the argument of _build_overwrites
  compiled,       \* the list _build_overwrites returned
  state_file,     \* .bridge_state.json: channel name -> message id
  state,          \* check_and_forward's state dict
  feed,           \* the messages of each Discord channel, oldest first
  new_messages,   \* check_and_forward's messages list, once reversed
  once,           \* --once
  relay,          \* every telegram_send call, in order, with its outcome
  forwarded,      \* check_and_forward's counter
  fmt_content,    \* the content argument of format_for_telegram
  fmt_channel,    \* the channel_name argument of format_for_telegram
  formatted,      \* the string format_for_telegram returned
  env_file,       \* marketing/.env: key -> value, NONE when there is no file
  environ,        \* os.environ, as far as the two Discord keys go
  has_dotenv,     \* whether python-dotenv can be imported
  script,         \* which script was started
  env,            \* the credentials the loader returned
  stdin           \* the line the operator types at the prompt, NONE at end of file

vars ==
  << catalog, dry_run, pc, exit_code, role_ids, channel_ids, channels, idx,
     cat_idx, ch_idx, cat_id, pin_idx, msg_idx, msg_id, bots_category_id,
     existing_channel_names, overwrites, created_channels, log, budget,
     run_no, guild, guild0, call, resp, ret, clock, wire, answers, stdout,
     template_arg, compiled, state_file, state, feed, new_messages, once,
     relay, forwarded, fmt_content, fmt_channel, formatted, env_file,
     environ, has_dotenv, script, env, stdin >>

\* the state of one transport call and its surroundings
transport == << call, resp, ret, clock, wire, answers, stdout >>

\* the argument and the result of one compilation
compiler == << template_arg, compiled >>

\* the bridge: its checkpoint, its poll and both services it talks to
bridge == << state_file, state, feed, new_messages, once, relay, forwarded >>

\* the arguments and the result of one format_for_telegram call
formatter == << fmt_content, fmt_channel, formatted >>

\* what the credential loaders read and return, and what main reads at
\* its prompt
credentials == << env_file, environ, has_dotenv, script, env, stdin >>

\* what the provisioning scripts' steps leave alone: they make their calls
\* in one piece and know nothing of the bridge
aux == << transport, compiler, bridge, formatter, credentials >>

\* locals of add_feed_channels.main, untouched by the full engine
incLocals ==
  << bots_category_id, existing_channel_names, overwrites, created_channels >>

\* fields of ServerSetup and locals of its methods, untouched by the variant
fullLocals == << channel_ids, cat_idx, ch_idx, cat_id >>

\* DISCORD_GUILD_ID; the @everyone role id equals the guild id
GUILD_ID == "guild"

\* an empty dict
EmptyDict == [k \in {} |-> ""]

\* d[k] = v on a dict
DictSet(d, k, v) == [x \in DOMAIN d \cup {k} |-> IF x = k THEN v ELSE d[x]]

(* ------------------------------------------------------------------ *)
(* Permission overwrite compiler (setup_discord.py 1619-1734)          *)
(* ------------------------------------------------------------------ *)

\* an overwrite record with allow and deny exchanged
OverwriteSwapped(id, allow, deny) ==
  [id |-> id, type |-> 0, allow |-> deny, deny |-> allow]

\* one overwrite record
Overwrite(id, allow, deny) ==
  [id |-> id, type |-> OW_ROLE, allow |-> allow, deny |-> deny]

\* [ow for ow in overwrites if ow.get("id")]
DropEmpty(ows) == SelectSeq(ows, LAMBDA ow : StrTruthy(ow.id))

\* the records appended for `template`, before the empty-id filter; an
\* `if role_id:` guard in the source is the same truthiness test
TemplateRecords(template, everyone_id, rids) ==
  LET unverified_id == Get(rids, "Unverified", "")
      member_id == Get(rids, "Member", "")
      contributor_id == Get(rids, "Contributor", "")
      founder_id == Get(rids, "Founder", "")
      core_team_id == Get(rids, "Core Team", "")
      moderator_id == Get(rids, "Moderator", "")
      view_hist == PERM_VIEW_CHANNEL \cup PERM_READ_MESSAGES_HISTORY
      view_send == PERM_VIEW_CHANNEL \cup PERM_SEND_MESSAGES
      full == PERM_VIEW_CHANNEL \cup PERM_SEND_MESSAGES
                \cup PERM_READ_MESSAGES_HISTORY
      If(id, ow) == IF StrTruthy(id) THEN <<ow>> ELSE <<>>
  IN CASE template = "read_only" ->
            <<Overwrite(everyone_id, view_hist, PERM_SEND_MESSAGES)>>
              \o If(unverified_id,
                    Overwrite(unverified_id, view_hist, PERM_SEND_MESSAGES))
       [] template = "community" ->
            <<Overwrite(everyone_id, {}, PERM_SEND_MESSAGES)>>
              \o If(unverified_id, Overwrite(unverified_id, {}, view_send))
              \o If(member_id, Overwrite(member_id, full, {}))
       [] template = "governance" ->
            <<Overwrite(everyone_id, {}, PERM_SEND_MESSAGES)>>
              \o If(unverified_id, Overwrite(unverified_id, {}, view_send))
              \o If(member_id,
                    Overwrite(member_id, view_hist, PERM_SEND_MESSAGES))
              \o If(contributor_id, Overwrite(contributor_id, full, {}))
       [] template = "team_only" ->
            <<Overwrite(everyone_id, {}, PERM_VIEW_CHANNEL)>>
              \o If(founder_id, Overwrite(founder_id, full, {}))
              \o If(core_team_id, Overwrite(core_team_id, full, {}))
              \o If(moderator_id, Overwrite(moderator_id, full, {}))
       [] OTHER -> <<>>

\* the team_only records appended without looking at the role ids, and
\* the list returned as it is
_build_overwrites_unguarded(template, everyone_id, rids) ==
  LET full == PERM_VIEW_CHANNEL \cup PERM_SEND_MESSAGES
                \cup PERM_READ_MESSAGES_HISTORY
  IN IF template = "team_only"
     THEN << [id |-> everyone_id, type |-> 0, allow |-> {},
              deny |-> PERM_VIEW_CHANNEL],
             [id |-> Get(rids, "Founder", ""), type |-> 0, allow |-> full,
              deny |-> {}],
             [id |-> Get(rids, "Core Team", ""), type |-> 0, allow |-> full,
              deny |-> {}],
             [id |-> Get(rids, "Moderator", ""), type |-> 0, allow |-> full,
              deny |-> {}] >>
     ELSE DropEmpty(TemplateRecords(template, everyone_id, rids))

\* ServerSetup._build_overwrites
_build_overwrites(template, everyone_id, rids) ==
  DropEmpty(TemplateRecords(template, everyone_id, rids))

(* ------------------------------------------------------------------ *)
(* Transport, as the scripts see it (setup_discord.py 94-134)          *)
(* ------------------------------------------------------------------ *)

\* the synthetic payload of dry-run mode
DRY_STUB == JDict([id |-> "DRY_RUN_ID", dry_run |-> TRUE])

\* a call without a json payload
NoBody == [k \in {} |-> ""]

\* the outcomes of a client that does not look at its dry_run flag
OutcomesLive == {"ok"} \cup (IF budget > 0 THEN {"fail"} ELSE {})

\* what a call can come to once rate limiting is absorbed: the dry-run
\* stub, a 2xx answer, or (while the remote service may still fail) a
\* non-2xx answer
Outcomes ==
  IF dry_run THEN {"dry"}
  ELSE {"ok"} \cup (IF budget > 0 THEN {"fail"} ELSE {})

\* DiscordClient._request: the value returned for outcome o, where body is
\* the service's 2xx payload
Result(o, body) ==
  IF o = "dry" THEN DRY_STUB ELSE IF o = "ok" THEN body ELSE NONE

\* the call is recorded with its outcome; wire tells whether an HTTP
\* request really left the process, run in which invocation it was made
Call(method, path, json, o) ==
  log' = Append(log, [method |-> method, path |-> path, json |-> json,
                      outcome |-> o, wire |-> ~dry_run, run |-> run_no])

\* a failed request uses up one unit of the failure budget
Charge(o) == budget' = IF o = "fail" THEN budget - 1 ELSE budget

\* f"/guilds/{guild_id}/channels"
GuildChannelsPath == <<"/guilds/", GUILD_ID, "/channels">>

\* f"/guilds/{guild_id}/roles"
GuildRolesPath == <<"/guilds/", GUILD_ID, "/roles">>

\* f"/channels/{ch_id}"
ChannelPath(ch_id) == <<"/channels/", ch_id>>

\* f"/channels/{ch_id}/messages"
MessagesPath(ch_id) == <<"/channels/", ch_id, "/messages">>

\* f"/channels/{ch_id}/pins/{msg_id}"
PinPath(ch_id, m_id) == <<"/channels/", ch_id, "/pins/", m_id>>

\* f"/channels/{ch_id}/pins"
PinsPath(ch_id) == <<"/channels/", ch_id, "/pins">>

(* ------------------------------------------------------------------ *)
(* The remote server, at the REST boundary the scripts use             *)
(* ------------------------------------------------------------------ *)

\* the id the service assigns to the next created object
FreshId == ToString(guild.next_id)

\* POST /guilds/{id}/channels succeeded
SrvCreateChannel(g, payload) ==
  [g EXCEPT !.channels = Append(@, [id |-> ToString(g.next_id),
                                    name |-> payload.name,
                                    type |-> payload.type,
                                    parent_id |-> Get(payload, "parent_id", "")]),
            !.next_id = @ + 1]

\* DELETE /channels/{id} succeeded
SrvDeleteChannel(g, ch_id) ==
  [g EXCEPT !.channels = SelectSeq(@, LAMBDA c : c.id # ch_id)]

\* POST /guilds/{id}/roles succeeded
SrvCreateRole(g, payload) ==
  [g EXCEPT !.roles = Append(@, [id |-> ToString(g.next_id),
                                 name |-> payload.name]),
            !.next_id = @ + 1]

\* POST /channels/{id}/messages succeeded
SrvCreateMessage(g, ch_id, content) ==
  [g EXCEPT !.messages = Append(@, [id |-> ToString(g.next_id),
                                    channel_id |-> ch_id,
                                    content |-> content]),
            !.next_id = @ + 1]

\* PUT /channels/{id}/pins/{msg} succeeded
SrvPin(g, m_id) == [g EXCEPT !.pins = @ \cup {m_id}]

\* GET /channels/{id}/pins: the pinned messages of the channel
SrvPinsOf(g, ch_id) ==
  SelectSeq(g.messages, LAMBDA m : m.channel_id = ch_id /\ m.id \in g.pins)

(* ------------------------------------------------------------------ *)
(* Full engine: ServerSetup (setup_discord.py 1523-1899)               *)
(* ------------------------------------------------------------------ *)

\* sys.exit(code), or the script's normal end (code 0)
Exit(code) == pc' = "exit" /\ exit_code' = code

\* Step 1, the fetch of delete_default_channels: `if not result: return`,
\* then `channels = result if isinstance(result, list) else []`
FetchChannels ==
  /\ pc = "delete_default_channels"
  /\ \E o \in Outcomes :
       LET result == Result(o, JList(guild.channels))
       IN /\ Call("get", GuildChannelsPath, NoBody, o)
          /\ Charge(o)
          /\ channels' = IF Truthy(result) /\ IsList(result)
                         THEN result.val ELSE <<>>
  /\ idx' = 1
  /\ pc' = "delete_loop"
  /\ UNCHANGED << aux, catalog, guild0, dry_run, exit_code, role_ids, channel_ids, cat_idx,
                  ch_idx, cat_id, pin_idx, msg_idx, msg_id, run_no, guild >>
  /\ UNCHANGED incLocals

\* the delete loop taking its dry-run branch in every mode
DeleteChannelNever ==
  /\ pc = "delete_loop"
  /\ idx <= Len(channels)
  /\ idx' = idx + 1
  /\ UNCHANGED << aux, catalog, guild0, dry_run, pc, exit_code, role_ids, channel_ids,
                  channels, cat_idx, ch_idx, cat_id, pin_idx, msg_idx, msg_id,
                  log, budget, run_no, guild >>
  /\ UNCHANGED incLocals

\* the delete loop leaving at the first failed delete
DeleteChannelStopsOnFailure ==
  /\ pc = "delete_loop"
  /\ idx <= Len(channels)
  /\ LET ch_id == Get(channels[idx], "id", "")
     IN IF dry_run
        THEN idx' = idx + 1 /\ UNCHANGED << log, budget, guild >>
        ELSE \E o \in Outcomes :
               /\ Call("delete", ChannelPath(ch_id), NoBody, o)
               /\ Charge(o)
               /\ guild' = IF o = "ok" THEN SrvDeleteChannel(guild, ch_id)
                           ELSE guild
               /\ idx' = IF o = "ok" THEN idx + 1 ELSE Len(channels) + 1
  /\ UNCHANGED << aux, catalog, guild0, dry_run, pc, exit_code, role_ids, channel_ids,
                  channels, cat_idx, ch_idx, cat_id, pin_idx, msg_idx, msg_id,
                  run_no >>
  /\ UNCHANGED incLocals

\* Step 1, one iteration of `for ch in channels`
DeleteChannel ==
  /\ pc = "delete_loop"
  /\ idx <= Len(channels)
  /\ LET ch_id == Get(channels[idx], "id", "")
     IN IF dry_run
        THEN UNCHANGED << log, budget, guild >>
        ELSE \E o \in Outcomes :
               /\ Call("delete", ChannelPath(ch_id), NoBody, o)
               /\ Charge(o)
               /\ guild' = IF o = "ok" THEN SrvDeleteChannel(guild, ch_id)
                           ELSE guild
  /\ idx' = idx + 1
  /\ UNCHANGED << aux, catalog, guild0, dry_run, pc, exit_code, role_ids, channel_ids,
                  channels, cat_idx, ch_idx, cat_id, pin_idx, msg_idx, msg_id,
                  run_no >>
  /\ UNCHANGED incLocals

\* run(): delete_default_channels has returned, create_roles starts
EndDelete ==
  /\ pc = "delete_loop"
  /\ idx > Len(channels)
  /\ pc' = "create_roles"
  /\ idx' = 1
  /\ UNCHANGED << aux, catalog, guild0, dry_run, exit_code, role_ids, channel_ids, channels,
                  cat_idx, ch_idx, cat_id, pin_idx, msg_idx, msg_id, log,
                  budget, run_no, guild >>
  /\ UNCHANGED incLocals

\* the role loop leaving at the first failed create request
CreateRoleStopsOnFailure ==
  /\ pc = "create_roles"
  /\ idx <= Len(catalog.ROLES)
  /\ LET role_def == catalog.ROLES[idx]
         payload == [name |-> role_def.name, color |-> role_def.color,
                     hoist |-> role_def.hoist,
                     mentionable |-> role_def.mentionable,
                     permissions |-> role_def.permissions]
     IN \E o \in Outcomes :
          LET result == Result(o, JDict([id |-> FreshId,
                                         name |-> role_def.name]))
          IN /\ Call("post", GuildRolesPath, payload, o)
             /\ Charge(o)
             /\ guild' = IF o = "ok" THEN SrvCreateRole(guild, payload)
                         ELSE guild
             /\ role_ids' = IF Truthy(result)
                            THEN DictSet(role_ids, role_def.name,
                                         Get(result.val, "id", "DRY_RUN_ID"))
                            ELSE role_ids
             /\ idx' = IF Truthy(result) THEN idx + 1
                       ELSE Len(catalog.ROLES) + 1
  /\ UNCHANGED << aux, catalog, guild0, dry_run, pc, exit_code, channel_ids, channels,
                  cat_idx, ch_idx, cat_id, pin_idx, msg_idx, msg_id, run_no >>
  /\ UNCHANGED incLocals

\* Step 2, one iteration of `for role_def in ROLES`
CreateRole ==
  /\ pc = "create_roles"
  /\ idx <= Len(catalog.ROLES)
  /\ LET role_def == catalog.ROLES[idx]
         payload == [name |-> role_def.name, color |-> role_def.color,
                     hoist |-> role_def.hoist,
                     mentionable |-> role_def.mentionable,
                     permissions |-> role_def.permissions]
     IN \E o \in Outcomes :
          LET result == Result(o, JDict([id |-> FreshId,
                                         name |-> role_def.name]))
          IN /\ Call("post", GuildRolesPath, payload, o)
             /\ Charge(o)
             /\ guild' = IF o = "ok" THEN SrvCreateRole(guild, payload)
                         ELSE guild
             /\ role_ids' = IF Truthy(result)
                            THEN DictSet(role_ids, role_def.name,
                                         Get(result.val, "id", "DRY_RUN_ID"))
                            ELSE role_ids
  /\ idx' = idx + 1
  /\ UNCHANGED << aux, catalog, guild0, dry_run, pc, exit_code, channel_ids, channels,
                  cat_idx, ch_idx, cat_id, pin_idx, msg_idx, msg_id, run_no >>
  /\ UNCHANGED incLocals

\* the position counted from the 1-based place in the list
RolePositionOffByOne(total, k) == total - k

\* total - idx for the 0-based idx of enumerate(ROLES); k is 1-based here
RolePosition(total, k) == total - (k - 1)

\* the positions list of the bulk re-order request
Positions(roles, rids) ==
  LET present == {k \in DOMAIN roles :
                    StrTruthy(Get(rids, roles[k].name, ""))}
      entry == [k \in DOMAIN roles |->
                  [id |-> Get(rids, roles[k].name, ""),
                   position |-> RolePosition(Len(roles), k)]]
  IN SelectSeqIdx(entry, present)

\* Step 2, the re-order after the loop
ReorderRoles ==
  /\ pc = "create_roles"
  /\ idx > Len(catalog.ROLES)
  /\ LET positions == Positions(catalog.ROLES, role_ids)
     IN IF ~dry_run /\ DOMAIN role_ids # {} /\ positions # <<>>
        THEN \E o \in Outcomes :
               /\ Call("patch", GuildRolesPath, positions, o)
               /\ Charge(o)
        ELSE UNCHANGED << log, budget >>
  /\ pc' = "validate_required_roles"
  /\ UNCHANGED << aux, catalog, guild0, dry_run, exit_code, role_ids, channel_ids, channels,
                  idx, cat_idx, ch_idx, cat_id, pin_idx, msg_idx, msg_id,
                  run_no, guild >>
  /\ UNCHANGED incLocals

\* the roles _validate_required_roles insists on
RequiredRoles ==
  <<"Founder", "Core Team", "Moderator", "Contributor", "Member",
    "Unverified">>

\* the check with the required list cut to the team roles
MissingRolesTeamOnly(rids) ==
  SelectSeq(SubSeq(RequiredRoles, 1, 3), LAMBDA r : r \notin DOMAIN rids)

\* missing = [r for r in required if r not in self.role_ids]
MissingRoles(rids) ==
  SelectSeq(RequiredRoles, LAMBDA r : r \notin DOMAIN rids)

\* Step 2b: _validate_required_roles
ValidateRequiredRoles ==
  /\ pc = "validate_required_roles"
  /\ IF MissingRoles(role_ids) # <<>> /\ ~dry_run
     THEN Exit(1) /\ UNCHANGED cat_idx
     ELSE pc' = "create_channels" /\ cat_idx' = 1 /\ UNCHANGED exit_code
  /\ UNCHANGED << aux, catalog, guild0, dry_run, role_ids, channel_ids, channels, idx,
                  ch_idx, cat_id, pin_idx, msg_idx, msg_id, log, budget,
                  run_no, guild >>
  /\ UNCHANGED incLocals

\* category_def.get("perm_template", "community")
CatTemplate(category_def) == Get(category_def, "perm_template", "community")

\* the category part without `if not cat_id: continue`
CreateCategoryFillsAnyway ==
  /\ pc = "create_channels"
  /\ cat_idx <= Len(catalog.SERVER_STRUCTURE)
  /\ LET category_def == catalog.SERVER_STRUCTURE[cat_idx]
         cat_payload ==
           [name |-> category_def.category,
            type |-> CH_CATEGORY,
            permission_overwrites |->
              _build_overwrites(CatTemplate(category_def), GUILD_ID, role_ids)]
     IN \E o \in Outcomes :
          LET cat_result == Result(o, JDict([id |-> FreshId,
                                             name |-> category_def.category]))
              new_cat_id == IF Truthy(cat_result)
                            THEN Get(cat_result.val, "id", "DRY_RUN_CAT_ID")
                            ELSE ""
          IN /\ Call("post", GuildChannelsPath, cat_payload, o)
             /\ Charge(o)
             /\ guild' = IF o = "ok" THEN SrvCreateChannel(guild, cat_payload)
                         ELSE guild
             /\ cat_id' = new_cat_id
             /\ pc' = "create_channel"
             /\ ch_idx' = 1
             /\ UNCHANGED cat_idx
  /\ UNCHANGED << aux, catalog, guild0, dry_run, exit_code, role_ids, channel_ids, channels,
                  idx, pin_idx, msg_idx, msg_id, run_no >>
  /\ UNCHANGED incLocals

\* Step 3, the category part of one iteration of `for category_def in
\* SERVER_STRUCTURE`; cat_id None is modelled as "" (only its truth is used)
CreateCategory ==
  /\ pc = "create_channels"
  /\ cat_idx <= Len(catalog.SERVER_STRUCTURE)
  /\ LET category_def == catalog.SERVER_STRUCTURE[cat_idx]
         cat_payload ==
           [name |-> category_def.category,
            type |-> CH_CATEGORY,
            permission_overwrites |->
              _build_overwrites(CatTemplate(category_def), GUILD_ID, role_ids)]
     IN \E o \in Outcomes :
          LET cat_result == Result(o, JDict([id |-> FreshId,
                                             name |-> category_def.category]))
              new_cat_id == IF Truthy(cat_result)
                            THEN Get(cat_result.val, "id", "DRY_RUN_CAT_ID")
                            ELSE ""
          IN /\ Call("post", GuildChannelsPath, cat_payload, o)
             /\ Charge(o)
             /\ guild' = IF o = "ok" THEN SrvCreateChannel(guild, cat_payload)
                         ELSE guild
             /\ cat_id' = new_cat_id
             /\ IF ~StrTruthy(new_cat_id)
                THEN cat_idx' = cat_idx + 1 /\ UNCHANGED << pc, ch_idx >>
                ELSE pc' = "create_channel" /\ ch_idx' = 1 /\ UNCHANGED cat_idx
  /\ UNCHANGED << aux, catalog, guild0, dry_run, exit_code, role_ids, channel_ids, channels,
                  idx, pin_idx, msg_idx, msg_id, run_no >>
  /\ UNCHANGED incLocals

\* the payload with the category's template for every channel
ChannelPayloadInherits(ch_def, cat_perm_template, parent_id, rids) ==
  [name |-> ch_def.name,
   type |-> ch_def.type,
   parent_id |-> parent_id,
   permission_overwrites |->
     _build_overwrites(cat_perm_template, GUILD_ID, rids)]

\* the payload without the topic of a forum channel
ChannelPayloadForumTopicless(ch_def, cat_perm_template, parent_id, rids) ==
  LET ch_type == ch_def.type
      ch_topic == Get(ch_def, "topic", "")
      ch_perm_template == Get(ch_def, "perm_template", cat_perm_template)
      ch_slowmode == Get(ch_def, "slowmode", 0)
      base == [name |-> ch_def.name,
               type |-> ch_type,
               parent_id |-> parent_id,
               permission_overwrites |->
                 _build_overwrites(ch_perm_template, GUILD_ID, rids)]
      topic == IF StrTruthy(ch_topic) /\ ch_type \notin {CH_CATEGORY, CH_FORUM}
               THEN [topic |-> ch_topic] ELSE EmptyDict
      slow == IF ch_slowmode # 0 /\ ch_type = CH_TEXT
              THEN [rate_limit_per_user |-> ch_slowmode] ELSE EmptyDict
      thread == IF ch_type = CH_FORUM
                THEN [default_thread_rate_limit_per_user |->
                        Get(ch_def, "thread_rate_limit", 300)]
                ELSE EmptyDict
  IN base @@ topic @@ slow @@ thread

\* the payload with the slow mode of any kind of channel
ChannelPayloadSlowAnyKind(ch_def, cat_perm_template, parent_id, rids) ==
  LET ch_type == ch_def.type
      ch_topic == Get(ch_def, "topic", "")
      ch_perm_template == Get(ch_def, "perm_template", cat_perm_template)
      ch_slowmode == Get(ch_def, "slowmode", 0)
      base == [name |-> ch_def.name,
               type |-> ch_type,
               parent_id |-> parent_id,
               permission_overwrites |->
                 _build_overwrites(ch_perm_template, GUILD_ID, rids)]
      topic == IF StrTruthy(ch_topic) /\ ch_type # CH_CATEGORY
               THEN [topic |-> ch_topic] ELSE EmptyDict
      slow == IF ch_slowmode # 0
              THEN [rate_limit_per_user |-> ch_slowmode] ELSE EmptyDict
      thread == IF ch_type = CH_FORUM
                THEN [default_thread_rate_limit_per_user |->
                        Get(ch_def, "thread_rate_limit", 300)]
                ELSE EmptyDict
  IN base @@ topic @@ slow @@ thread

\* the payload of a channel's create request
ChannelPayload(ch_def, cat_perm_template, parent_id, rids) ==
  LET ch_type == ch_def.type
      ch_topic == Get(ch_def, "topic", "")
      ch_perm_template == Get(ch_def, "perm_template", cat_perm_template)
      ch_slowmode == Get(ch_def, "slowmode", 0)
      base == [name |-> ch_def.name,
               type |-> ch_type,
               parent_id |-> parent_id,
               permission_overwrites |->
                 _build_overwrites(ch_perm_template, GUILD_ID, rids)]
      topic == IF (StrTruthy(ch_topic) /\ ch_type \notin {CH_CATEGORY, CH_FORUM})
                  \/ (ch_type = CH_FORUM /\ StrTruthy(ch_topic))
               THEN [topic |-> ch_topic] ELSE EmptyDict
      slow == IF ch_slowmode # 0 /\ ch_type = CH_TEXT
              THEN [rate_limit_per_user |-> ch_slowmode] ELSE EmptyDict
      thread == IF ch_type = CH_FORUM
                THEN [default_thread_rate_limit_per_user |->
                        Get(ch_def, "thread_rate_limit", 300)]
                ELSE EmptyDict
  IN base @@ topic @@ slow @@ thread

\* the channel loop recording an id whatever the answer was
CreateChannelRecordsAnyway ==
  /\ pc = "create_channel"
  /\ LET category_def == catalog.SERVER_STRUCTURE[cat_idx]
         chans == Get(category_def, "channels", <<>>)
     IN /\ ch_idx <= Len(chans)
        /\ LET ch_def == chans[ch_idx]
               ch_payload == ChannelPayload(ch_def, CatTemplate(category_def),
                                            cat_id, role_ids)
           IN \E o \in Outcomes :
                LET ch_result == Result(o, JDict([id |-> FreshId,
                                                  name |-> ch_def.name]))
                IN /\ Call("post", GuildChannelsPath, ch_payload, o)
                   /\ Charge(o)
                   /\ guild' = IF o = "ok"
                               THEN SrvCreateChannel(guild, ch_payload)
                               ELSE guild
                   /\ channel_ids' =
                        DictSet(channel_ids, ch_def.name,
                                IF Truthy(ch_result)
                                THEN Get(ch_result.val, "id", "DRY_RUN_CH_ID")
                                ELSE "DRY_RUN_CH_ID")
  /\ ch_idx' = ch_idx + 1
  /\ UNCHANGED << aux, catalog, guild0, dry_run, pc, exit_code, role_ids, channels, idx,
                  cat_idx, cat_id, pin_idx, msg_idx, msg_id, run_no >>
  /\ UNCHANGED incLocals

\* Step 3, one iteration of `for ch_def in category_def.get("channels", [])`
CreateChannel ==
  /\ pc = "create_channel"
  /\ LET category_def == catalog.SERVER_STRUCTURE[cat_idx]
         chans == Get(category_def, "channels", <<>>)
     IN /\ ch_idx <= Len(chans)
        /\ LET ch_def == chans[ch_idx]
               ch_payload == ChannelPayload(ch_def, CatTemplate(category_def),
                                            cat_id, role_ids)
           IN \E o \in Outcomes :
                LET ch_result == Result(o, JDict([id |-> FreshId,
                                                  name |-> ch_def.name]))
                IN /\ Call("post", GuildChannelsPath, ch_payload, o)
                   /\ Charge(o)
                   /\ guild' = IF o = "ok"
                               THEN SrvCreateChannel(guild, ch_payload)
                               ELSE guild
                   /\ channel_ids' =
                        IF Truthy(ch_result)
                        THEN DictSet(channel_ids, ch_def.name,
                                     Get(ch_result.val, "id", "DRY_RUN_CH_ID"))
                        ELSE channel_ids
  /\ ch_idx' = ch_idx + 1
  /\ UNCHANGED << aux, catalog, guild0, dry_run, pc, exit_code, role_ids, channels, idx,
                  cat_idx, cat_id, pin_idx, msg_idx, msg_id, run_no >>
  /\ UNCHANGED incLocals

\* Step 3: the channels of the category are done, next category
EndCategory ==
  /\ pc = "create_channel"
  /\ ch_idx > Len(Get(catalog.SERVER_STRUCTURE[cat_idx], "channels", <<>>))
  /\ pc' = "create_channels"
  /\ cat_idx' = cat_idx + 1
  /\ UNCHANGED << aux, catalog, guild0, dry_run, exit_code, role_ids, channel_ids, channels,
                  idx, ch_idx, cat_id, pin_idx, msg_idx, msg_id, log, budget,
                  run_no, guild >>
  /\ UNCHANGED incLocals

\* the scan with the inner loop cut to each channel's first message
PlaceholderErrorsFirstOnly(pm) ==
  {<<pm[k].name, 1>> : k \in {j \in DOMAIN pm :
                                /\ pm[j].messages # <<>>
                                /\ HasPlaceholder(pm[j].messages[1])}}

\* placeholder_errors of pin_messages: the (channel, message number) pairs
\* whose body contains the placeholder
PlaceholderErrors(pm) ==
  UNION {{<<pm[k].name, n>> :
            n \in {m \in DOMAIN pm[k].messages :
                     HasPlaceholder(pm[k].messages[m])}} :
         k \in DOMAIN pm}

\* the scan that reports the placeholder and goes on pinning
PinPreflightProceeds ==
  /\ pc = "create_channels"
  /\ cat_idx > Len(catalog.SERVER_STRUCTURE)
  /\ pc' = "pin_messages"
  /\ pin_idx' = 1
  /\ UNCHANGED << aux, catalog, guild0, dry_run, exit_code, role_ids, channel_ids, channels,
                  idx, cat_idx, ch_idx, cat_id, msg_idx, msg_id, log, budget,
                  run_no, guild >>
  /\ UNCHANGED incLocals

\* Step 3 is over; Step 4 starts with the placeholder scan of pin_messages,
\* which ends the process when any pinned message holds the placeholder
PinPreflight ==
  /\ pc = "create_channels"
  /\ cat_idx > Len(catalog.SERVER_STRUCTURE)
  /\ IF PlaceholderErrors(catalog.PINNED_MESSAGES) # {}
     THEN Exit(1) /\ UNCHANGED pin_idx
     ELSE pc' = "pin_messages" /\ pin_idx' = 1 /\ UNCHANGED exit_code
  /\ UNCHANGED << aux, catalog, guild0, dry_run, role_ids, channel_ids, channels, idx,
                  cat_idx, ch_idx, cat_id, msg_idx, msg_id, log, budget,
                  run_no, guild >>
  /\ UNCHANGED incLocals

\* the ch_type lookup of pin_messages: the inner `break` leaves only the
\* inner loop, so the last category holding the name decides, by its first
\* channel of that name; "" stands for None
RECURSIVE ChTypeFrom(_, _, _, _)
ChTypeFrom(structure, name, k, found) ==
  IF k > Len(structure) THEN found
  ELSE LET chans == Get(structure[k], "channels", <<>>)
           hits == {j \in DOMAIN chans : chans[j].name = name}
           first == CHOOSE j \in hits : \A h \in hits : j <= h
       IN ChTypeFrom(structure, name, k + 1,
                     IF hits = {} THEN found ELSE <<chans[first].type>>)

\* <<>> for None, <<type>> otherwise
ChTypeOf(structure, name) == ChTypeFrom(structure, name, 1, <<>>)

\* the skip test without the forum case
PinSkipsNoForum(entry, ch_ids, structure) ==
  ~StrTruthy(Get(ch_ids, entry.name, ""))

\* whether pin_messages skips the channel of this entry: no live id
\* recorded, or declared as a forum
PinSkips(entry, ch_ids, structure) ==
  \/ ~StrTruthy(Get(ch_ids, entry.name, ""))
  \/ ChTypeOf(structure, entry.name) = <<CH_FORUM>>

\* Step 4, the head of one iteration of `for ch_name, messages in
\* PINNED_MESSAGES.items()`
PinChannel ==
  /\ pc = "pin_messages"
  /\ pin_idx <= Len(catalog.PINNED_MESSAGES)
  /\ IF PinSkips(catalog.PINNED_MESSAGES[pin_idx], channel_ids,
                 catalog.SERVER_STRUCTURE)
     THEN pin_idx' = pin_idx + 1 /\ UNCHANGED << pc, msg_idx >>
     ELSE pc' = "pin_channel" /\ msg_idx' = 1 /\ UNCHANGED pin_idx
  /\ UNCHANGED << aux, catalog, guild0, dry_run, exit_code, role_ids, channel_ids, channels,
                  idx, cat_idx, ch_idx, cat_id, msg_id, log, budget, run_no,
                  guild >>
  /\ UNCHANGED incLocals

\* what the send of a message can come to: besides the outcomes of every
\* call, a 2xx answer whose object has no id ("anon"), counted with the
\* failures of the remote service
SendResults ==
  Outcomes \cup (IF ~dry_run /\ budget > 0 THEN {"anon"} ELSE {})

\* the value the send returns
SendResult(o) ==
  IF o = "anon" THEN JDict([type |-> 0])
  ELSE Result(o, JDict([id |-> FreshId]))

\* the send going on to the pin whatever the answer was, with the id the
\* service would have given
SendMessageAlwaysPins ==
  /\ pc = "pin_channel"
  /\ LET entry == catalog.PINNED_MESSAGES[pin_idx]
         ch_id == channel_ids[entry.name]
     IN /\ msg_idx <= Len(entry.messages)
        /\ IF dry_run
           THEN /\ msg_idx' = msg_idx + 1
                /\ UNCHANGED << pc, msg_id, log, budget, guild >>
           ELSE \E o \in SendResults :
                  LET msg_content == entry.messages[msg_idx]
                  IN /\ Call("post", MessagesPath(ch_id),
                             [content |-> msg_content], o)
                     /\ budget' = IF o \in {"fail", "anon"} THEN budget - 1
                                  ELSE budget
                     /\ guild' = IF o \in {"ok", "anon"}
                                 THEN SrvCreateMessage(guild, ch_id, msg_content)
                                 ELSE guild
                     /\ msg_id' = FreshId
                     /\ pc' = "pin_message"
                     /\ UNCHANGED msg_idx
  /\ UNCHANGED << aux, catalog, guild0, dry_run, exit_code, role_ids, channel_ids, channels,
                  idx, cat_idx, ch_idx, cat_id, pin_idx, run_no >>
  /\ UNCHANGED incLocals

\* Step 4, the send of one iteration of `for idx, msg_content in
\* enumerate(messages)`: nothing in dry-run; a failed send or a payload
\* without id moves on to the next message
SendMessage ==
  /\ pc = "pin_channel"
  /\ LET entry == catalog.PINNED_MESSAGES[pin_idx]
         ch_id == channel_ids[entry.name]
     IN /\ msg_idx <= Len(entry.messages)
        /\ IF dry_run
           THEN /\ msg_idx' = msg_idx + 1
                /\ UNCHANGED << pc, msg_id, log, budget, guild >>
           ELSE \E o \in SendResults :
                  LET msg_content == entry.messages[msg_idx]
                      send_result == SendResult(o)
                      new_id == IF Truthy(send_result)
                                THEN Get(send_result.val, "id", "")
                                ELSE ""
                  IN /\ Call("post", MessagesPath(ch_id),
                             [content |-> msg_content], o)
                     /\ budget' = IF o \in {"fail", "anon"} THEN budget - 1
                                  ELSE budget
                     /\ guild' = IF o \in {"ok", "anon"}
                                 THEN SrvCreateMessage(guild, ch_id, msg_content)
                                 ELSE guild
                     /\ msg_id' = new_id
                     /\ IF StrTruthy(new_id)
                        THEN pc' = "pin_message" /\ UNCHANGED msg_idx
                        ELSE msg_idx' = msg_idx + 1 /\ UNCHANGED pc
  /\ UNCHANGED << aux, catalog, guild0, dry_run, exit_code, role_ids, channel_ids, channels,
                  idx, cat_idx, ch_idx, cat_id, pin_idx, run_no >>
  /\ UNCHANGED incLocals

\* Step 4, the pin of the message just sent
PinMessage ==
  /\ pc = "pin_message"
  /\ LET ch_id == channel_ids[catalog.PINNED_MESSAGES[pin_idx].name]
     IN \E o \in Outcomes :
          /\ Call("put", PinPath(ch_id, msg_id), NoBody, o)
          /\ Charge(o)
          /\ guild' = IF o = "ok" THEN SrvPin(guild, msg_id) ELSE guild
  /\ pc' = "pin_channel"
  /\ msg_idx' = msg_idx + 1
  /\ UNCHANGED << aux, catalog, guild0, dry_run, exit_code, role_ids, channel_ids, channels,
                  idx, cat_idx, ch_idx, cat_id, pin_idx, msg_id, run_no >>
  /\ UNCHANGED incLocals

\* Step 4: the messages of the channel are done, next channel
EndPinChannel ==
  /\ pc = "pin_channel"
  /\ msg_idx > Len(catalog.PINNED_MESSAGES[pin_idx].messages)
  /\ pc' = "pin_messages"
  /\ pin_idx' = pin_idx + 1
  /\ UNCHANGED << aux, catalog, guild0, dry_run, exit_code, role_ids, channel_ids, channels,
                  idx, cat_idx, ch_idx, cat_id, msg_idx, msg_id, log, budget,
                  run_no, guild >>
  /\ UNCHANGED incLocals

\* run() that repeats the role re-order before it returns
FinishReordersRoles ==
  /\ pc = "pin_messages"
  /\ pin_idx > Len(catalog.PINNED_MESSAGES)
  /\ \E o \in Outcomes :
       /\ Call("patch", GuildRolesPath, Positions(catalog.ROLES, role_ids), o)
       /\ Charge(o)
  /\ Exit(0)
  /\ UNCHANGED << aux, catalog, guild0, dry_run, role_ids, channel_ids, channels, idx,
                  cat_idx, ch_idx, cat_id, pin_idx, msg_idx, msg_id, run_no,
                  guild >>
  /\ UNCHANGED incLocals

\* run() returns: "Setup complete"
Finish ==
  /\ pc = "pin_messages"
  /\ pin_idx > Len(catalog.PINNED_MESSAGES)
  /\ Exit(0)
  /\ UNCHANGED << aux, catalog, guild0, dry_run, role_ids, channel_ids, channels, idx,
                  cat_idx, ch_idx, cat_id, pin_idx, msg_idx, msg_id, log,
                  budget, run_no, guild >>
  /\ UNCHANGED incLocals

\* the characters str.strip() removes that occur in the typed lines
Whitespace == {" ", "\t"}

\* str.strip() of a line given as the sequence of its characters
Strip(line) ==
  LET inked == {i \in DOMAIN line : line[i] \notin Whitespace}
  IN IF inked = {} THEN <<>>
     ELSE SubSeq(line, CHOOSE i \in inked : \A j \in inked : i <= j,
                 CHOOSE i \in inked : \A j \in inked : j <= i)

\* str.lower() on the letters that occur in the typed lines
Lower(line) ==
  [i \in DOMAIN line |->
     CASE line[i] = "Y" -> "y"
       [] line[i] = "E" -> "e"
       [] line[i] = "S" -> "s"
       [] line[i] = "N" -> "n"
       [] line[i] = "O" -> "o"
       [] OTHER -> line[i]]

\* a line read from the keyboard
Line(chars) == [kind |-> "line", val |-> chars]

\* main going on whenever the typed line begins with yes
ConfirmRunByPrefix ==
  /\ pc = "confirm"
  /\ IF dry_run
     THEN pc' = "delete_default_channels" /\ UNCHANGED exit_code
     ELSE IF stdin = NONE
     THEN Exit(1)
     ELSE LET confirm == Lower(Strip(stdin.val))
          IN IF Len(confirm) >= 3 /\ SubSeq(confirm, 1, 3) = <<"y", "e", "s">>
             THEN pc' = "delete_default_channels" /\ UNCHANGED exit_code
             ELSE Exit(0)
  /\ UNCHANGED << aux, catalog, guild0, dry_run, role_ids, channel_ids, channels, idx,
                  cat_idx, ch_idx, cat_id, pin_idx, msg_idx, msg_id, log,
                  budget, run_no, guild >>
  /\ UNCHANGED incLocals

\* main, between load_credentials and setup.run(): in a live run the
\* operator is asked; input() raises EOFError at end of file, which ends the
\* process with a traceback and code 1; anything but yes ends it with code 0
ConfirmRun ==
  /\ pc = "confirm"
  /\ IF dry_run
     THEN pc' = "delete_default_channels" /\ UNCHANGED exit_code
     ELSE IF stdin = NONE
     THEN Exit(1)
     ELSE LET confirm == Lower(Strip(stdin.val))
          IN IF confirm # <<"y", "e", "s">>
             THEN Exit(0)
             ELSE pc' = "delete_default_channels" /\ UNCHANGED exit_code
  /\ UNCHANGED << aux, catalog, guild0, dry_run, role_ids, channel_ids, channels, idx,
                  cat_idx, ch_idx, cat_id, pin_idx, msg_idx, msg_id, log,
                  budget, run_no, guild >>
  /\ UNCHANGED incLocals

(* ------------------------------------------------------------------ *)
(* Inputs of a run                                                     *)
(* ------------------------------------------------------------------ *)

\* how many messages each channel of a generated pin catalog carries
MaxMsgs == 2

\* how many requests of one exploration the remote service may fail
MaxFailures == 1

\* how many times in a row a script is invoked
MaxRuns == 2

\* PINNED_MESSAGES once every placeholder has been replaced by a live URL
Cleaned(pm) ==
  [k \in DOMAIN pm |->
     [name |-> pm[k].name,
      messages |-> [m \in DOMAIN pm[k].messages |->
                      Body(pm[k].messages[m].tag, FALSE)]]]

\* the catalog as the source has it
SourceCatalog ==
  [ROLES |-> ROLES, SERVER_STRUCTURE |-> SERVER_STRUCTURE,
   PINNED_MESSAGES |-> PINNED_MESSAGES]

\* SERVER_STRUCTURE cut down to the channels named in keep, dropping the
\* categories left empty
Restrict(structure, keep) ==
  LET cut == [k \in DOMAIN structure |->
                [structure[k] EXCEPT
                   !.channels = SelectSeq(@, LAMBDA c : c.name \in keep)]]
  IN SelectSeq(cut, LAMBDA c : c.channels # <<>>)

\* the channels of the cut-down catalogs: a text channel with slow mode, a
\* forum, a read-only feed channel
SmallChannels == <<"general", "research", "crypto-news">>

\* a generated pin catalog over SmallChannels, MaxMsgs messages each, with
\* the placeholder in the message at place (<<0, 0>>: in none)
SmallPinned(place) ==
  [k \in DOMAIN SmallChannels |->
     Entry(SmallChannels[k],
           [m \in 1..MaxMsgs |-> place = <<k, m>>])]

\* where the placeholder may sit in a generated pin catalog
Places == {<<0, 0>>} \cup ((DOMAIN SmallChannels) \X (1..MaxMsgs))

\* a cut-down catalog: the required roles and one more, three categories
\* (the last with a second channel that has no pins), a generated pin catalog
SmallCatalog(place) ==
  [ROLES |-> SelectSeq(ROLES, LAMBDA r : r.name \in Range(RequiredRoles)
                                           \cup {"Ambassador"}),
   SERVER_STRUCTURE |-> Restrict(SERVER_STRUCTURE,
                                 Range(SmallChannels) \cup {"price-ticker"}),
   PINNED_MESSAGES |-> SmallPinned(place)]

\* a server nobody has provisioned: the two channels a new guild comes with
DefaultGuild ==
  [channels |-> << [id |-> "1", name |-> "Text Channels", type |-> CH_CATEGORY,
                    parent_id |-> ""],
                   [id |-> "2", name |-> "general", type |-> CH_TEXT,
                    parent_id |-> "1"] >>,
   roles |-> <<>>, messages |-> <<>>, pins |-> {}, next_id |-> 3]

\* a server without any channel
EmptyGuild ==
  [channels |-> <<>>, roles |-> <<>>, messages |-> <<>>, pins |-> {},
   next_id |-> 1]

\* no bridge, no formatting and no credential loading is under way
Offline ==
  /\ state_file = EmptyDict
  /\ state = EmptyDict
  /\ feed = EmptyDict
  /\ new_messages = <<>>
  /\ once = FALSE
  /\ relay = <<>>
  /\ forwarded = 0
  /\ fmt_content = <<>>
  /\ fmt_channel = ""
  /\ formatted = <<>>
  /\ env_file = NONE
  /\ environ = EmptyDict
  /\ has_dotenv = FALSE
  /\ script = ""
  /\ env = EmptyDict

\* the same, and nobody is at the keyboard
Quiet == Offline /\ stdin = NONE

\* no transport call and no compilation is under way
Still ==
  /\ call = NONE
  /\ resp = NONE
  /\ ret = NONE
  /\ clock = 0
  /\ wire = <<>>
  /\ answers = <<>>
  /\ stdout = <<>>
  /\ template_arg = ""
  /\ compiled = <<>>

\* nothing but a provisioning script is under way
Idle == Quiet /\ Still

\* the state of a freshly started process
Start(entry) ==
  /\ pc = entry
  /\ exit_code = -1
  /\ role_ids = EmptyDict
  /\ channel_ids = EmptyDict
  /\ channels = <<>>
  /\ idx = 1
  /\ cat_idx = 1
  /\ ch_idx = 1
  /\ cat_id = ""
  /\ pin_idx = 1
  /\ msg_idx = 1
  /\ msg_id = ""
  /\ bots_category_id = ""
  /\ existing_channel_names = {}
  /\ overwrites = <<>>
  /\ created_channels = EmptyDict

\* the same, as the next state: a new process starts
Restart(entry) ==
  /\ pc' = entry
  /\ exit_code' = -1
  /\ role_ids' = EmptyDict
  /\ channel_ids' = EmptyDict
  /\ channels' = <<>>
  /\ idx' = 1
  /\ cat_idx' = 1
  /\ ch_idx' = 1
  /\ cat_id' = ""
  /\ pin_idx' = 1
  /\ msg_idx' = 1
  /\ msg_id' = ""
  /\ bots_category_id' = ""
  /\ existing_channel_names' = {}
  /\ overwrites' = <<>>
  /\ created_channels' = EmptyDict

\* the source catalog runs against a service that answers every request;
\* the cut-down catalogs also against one that fails up to MaxFailures
Init ==
  /\ \/ /\ catalog \in {SourceCatalog,
                        [SourceCatalog EXCEPT
                           !.PINNED_MESSAGES = Cleaned(@)]}
        /\ budget = 0
     \/ /\ catalog \in {SmallCatalog(p) : p \in Places}
        /\ budget = MaxFailures
  /\ dry_run \in BOOLEAN
  /\ guild \in {DefaultGuild, EmptyGuild}
  /\ guild0 = guild
  /\ log = <<>>
  /\ run_no = 1
  /\ Start("delete_default_channels")
  /\ Idle

Next ==
  \/ FetchChannels
  \/ DeleteChannel
  \/ EndDelete
  \/ CreateRole
  \/ ReorderRoles
  \/ ValidateRequiredRoles
  \/ CreateCategory
  \/ CreateChannel
  \/ EndCategory
  \/ PinPreflight
  \/ PinChannel
  \/ SendMessage
  \/ PinMessage
  \/ EndPinChannel
  \/ Finish

Spec == Init /\ [][Next]_vars

\* the operator starts the script again: a new process, the same server
Rerun ==
  /\ pc = "exit"
  /\ run_no < MaxRuns
  /\ run_no' = run_no + 1
  /\ Restart("delete_default_channels")
  /\ UNCHANGED << aux, catalog, guild0, dry_run, log, budget, guild >>

\* live runs of a placeholder-free catalog against a service that answers
\* every request
InitRerun ==
  /\ catalog \in {[SourceCatalog EXCEPT !.PINNED_MESSAGES = Cleaned(@)],
                   SmallCatalog(<<0, 0>>)}
  /\ budget = 0
  /\ dry_run = FALSE
  /\ guild \in {DefaultGuild, EmptyGuild}
  /\ guild0 = guild
  /\ log = <<>>
  /\ run_no = 1
  /\ Start("delete_default_channels")
  /\ Idle

NextRerun == Next \/ Rerun

SpecRerun == InitRerun /\ [][NextRerun]_vars

(* ------------------------------------------------------------------ *)
(* Incremental add variant: add_feed_channels.py                       *)
(* ------------------------------------------------------------------ *)

\* NEW_CHANNELS (add_feed_channels.py 34-59)
NEW_CHANNELS ==
  << [name |-> "crypto-news",
      type |-> CH_TEXT,
      topic |-> "Aggregated crypto industry news from curated RSS sources. Powered by MonitoRSS.",
      perm_template |-> "read_only"],
     [name |-> "price-ticker",
      type |-> CH_TEXT,
      topic |-> "Auto-updating price data for BTC, ETH, and top 20 by market cap. Powered by CoinTrendzBot.",
      perm_template |-> "read_only"],
     [name |-> "regulatory-watch",
      type |-> CH_TEXT,
      topic |-> "Crypto regulation and legal news from SEC, CFTC, and industry sources. Powered by MonitoRSS.",
      perm_template |-> "read_only"],
     [name |-> "whale-alerts",
      type |-> CH_TEXT,
      topic |-> "Large transaction alerts on major chains. Powered by Whale Alert Bot.",
      perm_template |-> "read_only"] >>

\* the builder without the record of the Unverified role
build_read_only_overwrites_everyone(everyone_role_id, rids) ==
  <<Overwrite(everyone_role_id,
              PERM_VIEW_CHANNEL \cup PERM_READ_MESSAGES_HISTORY,
              PERM_SEND_MESSAGES)>>

\* build_read_only_overwrites (add_feed_channels.py 72-90)
build_read_only_overwrites(everyone_role_id, rids) ==
  LET allow == PERM_VIEW_CHANNEL \cup PERM_READ_MESSAGES_HISTORY
      unverified_id == Get(rids, "Unverified", "")
  IN <<Overwrite(everyone_role_id, allow, PERM_SEND_MESSAGES)>>
       \o (IF StrTruthy(unverified_id)
           THEN <<Overwrite(unverified_id, allow, PERM_SEND_MESSAGES)>>
           ELSE <<>>)

\* str.upper() with its argument left as it is
UpperIdentity(s) == s

\* str.upper() on the channel names that occur on the modelled servers
Upper(s) ==
  CASE s \in {"bots", "Bots", "bOtS", "BOTS"} -> "BOTS"
    [] s \in {"robots", "Robots"} -> "ROBOTS"
    [] s \in {"community", "Community"} -> "COMMUNITY"
    [] s = "general" -> "GENERAL"
    [] s = "bot-commands" -> "BOT-COMMANDS"
    [] s = "crypto-news" -> "CRYPTO-NEWS"
    [] s = "price-ticker" -> "PRICE-TICKER"
    [] s = "regulatory-watch" -> "REGULATORY-WATCH"
    [] s = "whale-alerts" -> "WHALE-ALERTS"
    [] OTHER -> s

\* the loop that finds the BOTS category: every match overwrites the one
\* before, so the last matching category of the list is kept
RECURSIVE BotsCategoryId(_)
BotsCategoryId(chs) ==
  IF chs = <<>> THEN ""
  ELSE LET ch == chs[Len(chs)]
       IN IF Get(ch, "type", -1) = CH_CATEGORY
             /\ Upper(Get(ch, "name", "")) = "BOTS"
          THEN ch.id
          ELSE BotsCategoryId(SubSeq(chs, 1, Len(chs) - 1))

\* the names collected upper-cased, like the category test
ExistingChannelNamesUpper(chs) ==
  {Upper(Get(chs[k], "name", "")) : k \in DOMAIN chs}

\* existing_channel_names after the same loop
ExistingChannelNames(chs) == {Get(chs[k], "name", "") : k \in DOMAIN chs}

\* role_ids after `for role in roles`: a later role of the same name wins
RoleIdsOf(roles) ==
  [n \in {Get(roles[k], "name", "") : k \in DOMAIN roles} |->
     LET hits == {k \in DOMAIN roles : Get(roles[k], "name", "") = n}
         last == CHOOSE k \in hits : \A h \in hits : h <= k
     IN Get(roles[last], "id", "")]

\* the id of the first channel of the list that has the name
FirstIdByName(chs, name) ==
  LET hits == {k \in DOMAIN chs : Get(chs[k], "name", "") = name}
      first == CHOOSE k \in hits : \A h \in hits : k <= h
  IN chs[first].id

\* the create payload without its parent
IncPayloadNoParent(ch_def, parent_id, ows) ==
  [name |-> ch_def.name, type |-> ch_def.type, topic |-> ch_def.topic,
   permission_overwrites |-> ows]

\* the payload of a create request of the variant
IncPayload(ch_def, parent_id, ows) ==
  [name |-> ch_def.name, type |-> ch_def.type, parent_id |-> parent_id,
   topic |-> ch_def.topic, permission_overwrites |-> ows]

\* Step 1: fetch the channels, return at once in dry-run, else find the
\* BOTS category and collect the existing names; exit 1 when the list is
\* unusable or no category matches
IncFetchChannels ==
  /\ pc = "inc_main"
  /\ \E o \in Outcomes :
       LET channels_result == Result(o, JList(guild.channels))
           usable == Truthy(channels_result) /\ IsList(channels_result)
           found == IF usable THEN BotsCategoryId(channels_result.val) ELSE ""
       IN /\ Call("get", GuildChannelsPath, NoBody, o)
          /\ Charge(o)
          /\ IF dry_run
             THEN /\ Exit(0)
                  /\ UNCHANGED << channels, bots_category_id,
                                  existing_channel_names >>
             ELSE IF ~usable
             THEN /\ Exit(1)
                  /\ UNCHANGED << channels, bots_category_id,
                                  existing_channel_names >>
             ELSE /\ channels' = channels_result.val
                  /\ bots_category_id' = found
                  /\ existing_channel_names' =
                       ExistingChannelNames(channels_result.val)
                  /\ IF ~StrTruthy(found)
                     THEN Exit(1)
                     ELSE pc' = "inc_fetch_roles" /\ UNCHANGED exit_code
  /\ UNCHANGED << aux, catalog, guild0, dry_run, role_ids, idx, pin_idx, msg_idx,
                  msg_id, overwrites, created_channels, run_no, guild >>
  /\ UNCHANGED fullLocals

\* Step 2: fetch the roles and build the overwrites
IncFetchRoles ==
  /\ pc = "inc_fetch_roles"
  /\ \E o \in Outcomes :
       LET roles == Result(o, JList(guild.roles))
       IN /\ Call("get", GuildRolesPath, NoBody, o)
          /\ Charge(o)
          /\ IF ~Truthy(roles) \/ ~IsList(roles)
             THEN /\ Exit(1)
                  /\ UNCHANGED << role_ids, overwrites, idx >>
             ELSE /\ role_ids' = RoleIdsOf(roles.val)
                  /\ overwrites' =
                       build_read_only_overwrites(GUILD_ID, RoleIdsOf(roles.val))
                  /\ pc' = "inc_create"
                  /\ idx' = 1
                  /\ UNCHANGED exit_code
  /\ UNCHANGED << aux, catalog, guild0, dry_run, channels, pin_idx, msg_idx, msg_id,
                  bots_category_id, existing_channel_names, created_channels,
                  run_no, guild >>
  /\ UNCHANGED fullLocals

\* the create step deleting the channel that has the name already
IncCreateChannelResets ==
  /\ pc = "inc_create"
  /\ idx <= Len(NEW_CHANNELS)
  /\ LET name == NEW_CHANNELS[idx].name
     IN IF name \in existing_channel_names
        THEN \E o \in Outcomes :
               /\ Call("delete", ChannelPath(FirstIdByName(channels, name)),
                       NoBody, o)
               /\ Charge(o)
               /\ guild' = IF o = "ok"
                           THEN SrvDeleteChannel(guild,
                                                 FirstIdByName(channels, name))
                           ELSE guild
        ELSE UNCHANGED << log, budget, guild >>
  /\ idx' = idx + 1
  /\ UNCHANGED << aux, catalog, guild0, dry_run, pc, exit_code, role_ids,
                  channels, pin_idx, msg_idx, msg_id, run_no >>
  /\ UNCHANGED incLocals
  /\ UNCHANGED fullLocals

\* Step 3, one iteration of `for ch_def in NEW_CHANNELS`
IncCreateChannel ==
  /\ pc = "inc_create"
  /\ idx <= Len(NEW_CHANNELS)
  /\ LET ch_def == NEW_CHANNELS[idx]
         name == ch_def.name
     IN IF name \in existing_channel_names
        THEN /\ created_channels' =
                  IF \E k \in DOMAIN channels : Get(channels[k], "name", "") = name
                  THEN DictSet(created_channels, name,
                               FirstIdByName(channels, name))
                  ELSE created_channels
             /\ UNCHANGED << log, budget, guild >>
        ELSE LET payload == IncPayload(ch_def, bots_category_id, overwrites)
             IN \E o \in Outcomes :
                  LET result == Result(o, JDict([id |-> FreshId,
                                                 name |-> name]))
                  IN /\ Call("post", GuildChannelsPath, payload, o)
                     /\ Charge(o)
                     /\ guild' = IF o = "ok"
                                 THEN SrvCreateChannel(guild, payload)
                                 ELSE guild
                     /\ created_channels' =
                          IF Truthy(result)
                          THEN DictSet(created_channels, name,
                                       Get(result.val, "id", "DRY_RUN_ID"))
                          ELSE created_channels
  /\ idx' = idx + 1
  /\ UNCHANGED << aux, catalog, guild0, dry_run, pc, exit_code, role_ids, channels,
                  pin_idx, msg_idx, msg_id, bots_category_id,
                  existing_channel_names, overwrites, run_no >>
  /\ UNCHANGED fullLocals

\* Step 3 is over, Step 4 starts
IncEndCreate ==
  /\ pc = "inc_create"
  /\ idx > Len(NEW_CHANNELS)
  /\ pc' = "inc_pin"
  /\ pin_idx' = 1
  /\ UNCHANGED << aux, catalog, guild0, dry_run, exit_code, role_ids, channels, idx,
                  msg_idx, msg_id, log, budget, run_no, guild >>
  /\ UNCHANGED incLocals
  /\ UNCHANGED fullLocals

\* created_channels.items(): the resolved names, in insertion order, which
\* is the order of NEW_CHANNELS
PinOrder(created) ==
  LET names == [k \in DOMAIN NEW_CHANNELS |-> NEW_CHANNELS[k].name]
  IN SelectSeq(names, LAMBDA n : n \in DOMAIN created)

\* Step 4, the head of one iteration of `for name, ch_id in
\* created_channels.items()`: skip without messages, else ask for the pins
\* and skip when the answer is a non-empty list
IncPinChannel ==
  /\ pc = "inc_pin"
  /\ pin_idx <= Len(PinOrder(created_channels))
  /\ LET name == PinOrder(created_channels)[pin_idx]
         ch_id == created_channels[name]
         messages == PinnedGet(catalog.PINNED_MESSAGES, name)
     IN IF messages = <<>>
        THEN /\ pin_idx' = pin_idx + 1
             /\ UNCHANGED << pc, msg_idx, log, budget >>
        ELSE IF dry_run
        THEN /\ pc' = "inc_pin_channel"
             /\ msg_idx' = 1
             /\ UNCHANGED << pin_idx, log, budget >>
        ELSE \E o \in Outcomes :
               LET existing_pins == Result(o, JList(SrvPinsOf(guild, ch_id)))
               IN /\ Call("get", PinsPath(ch_id), NoBody, o)
                  /\ Charge(o)
                  /\ IF /\ Truthy(existing_pins)
                        /\ IsList(existing_pins)
                        /\ Len(existing_pins.val) > 0
                     THEN pin_idx' = pin_idx + 1 /\ UNCHANGED << pc, msg_idx >>
                     ELSE /\ pc' = "inc_pin_channel"
                          /\ msg_idx' = 1
                          /\ UNCHANGED pin_idx
  /\ UNCHANGED << aux, catalog, guild0, dry_run, exit_code, role_ids, channels, idx,
                  msg_id, run_no, guild >>
  /\ UNCHANGED incLocals
  /\ UNCHANGED fullLocals

\* the message loop leaving the channel at the first placeholder
IncSendMessageBreaks ==
  /\ pc = "inc_pin_channel"
  /\ LET name == PinOrder(created_channels)[pin_idx]
         ch_id == created_channels[name]
         messages == PinnedGet(catalog.PINNED_MESSAGES, name)
     IN /\ msg_idx <= Len(messages)
        /\ IF HasPlaceholder(messages[msg_idx])
           THEN /\ msg_idx' = Len(messages) + 1
                /\ UNCHANGED << pc, msg_id, log, budget, guild >>
           ELSE \E o \in Outcomes :
                  LET send_result == Result(o, JDict([id |-> FreshId]))
                      new_id == IF Truthy(send_result)
                                THEN Get(send_result.val, "id", "")
                                ELSE ""
                  IN /\ Call("post", MessagesPath(ch_id),
                             [content |-> messages[msg_idx]], o)
                     /\ Charge(o)
                     /\ guild' = IF o = "ok"
                                 THEN SrvCreateMessage(guild, ch_id,
                                                       messages[msg_idx])
                                 ELSE guild
                     /\ msg_id' = new_id
                     /\ IF StrTruthy(new_id)
                        THEN pc' = "inc_pin_message" /\ UNCHANGED msg_idx
                        ELSE msg_idx' = msg_idx + 1 /\ UNCHANGED pc
  /\ UNCHANGED << aux, catalog, guild0, dry_run, exit_code, role_ids, channels, idx,
                  pin_idx, run_no >>
  /\ UNCHANGED incLocals
  /\ UNCHANGED fullLocals

\* Step 4, the send of one iteration of `for idx, msg_content in
\* enumerate(messages)`: a body with the placeholder is skipped, and so is
\* every body in dry-run; a failed send moves on to the next message, a
\* payload without id is not pinned
IncSendMessage ==
  /\ pc = "inc_pin_channel"
  /\ LET name == PinOrder(created_channels)[pin_idx]
         ch_id == created_channels[name]
         messages == PinnedGet(catalog.PINNED_MESSAGES, name)
     IN /\ msg_idx <= Len(messages)
        /\ IF HasPlaceholder(messages[msg_idx]) \/ dry_run
           THEN /\ msg_idx' = msg_idx + 1
                /\ UNCHANGED << pc, msg_id, log, budget, guild >>
           ELSE \E o \in Outcomes :
                  LET send_result == Result(o, JDict([id |-> FreshId]))
                      new_id == IF Truthy(send_result)
                                THEN Get(send_result.val, "id", "")
                                ELSE ""
                  IN /\ Call("post", MessagesPath(ch_id),
                             [content |-> messages[msg_idx]], o)
                     /\ Charge(o)
                     /\ guild' = IF o = "ok"
                                 THEN SrvCreateMessage(guild, ch_id,
                                                       messages[msg_idx])
                                 ELSE guild
                     /\ msg_id' = new_id
                     /\ IF StrTruthy(new_id)
                        THEN pc' = "inc_pin_message" /\ UNCHANGED msg_idx
                        ELSE msg_idx' = msg_idx + 1 /\ UNCHANGED pc
  /\ UNCHANGED << aux, catalog, guild0, dry_run, exit_code, role_ids, channels, idx,
                  pin_idx, run_no >>
  /\ UNCHANGED incLocals
  /\ UNCHANGED fullLocals

\* Step 4, the pin of the message just sent
IncPinMessage ==
  /\ pc = "inc_pin_message"
  /\ LET ch_id == created_channels[PinOrder(created_channels)[pin_idx]]
     IN \E o \in Outcomes :
          /\ Call("put", PinPath(ch_id, msg_id), NoBody, o)
          /\ Charge(o)
          /\ guild' = IF o = "ok" THEN SrvPin(guild, msg_id) ELSE guild
  /\ pc' = "inc_pin_channel"
  /\ msg_idx' = msg_idx + 1
  /\ UNCHANGED << aux, catalog, guild0, dry_run, exit_code, role_ids, channels, idx,
                  pin_idx, msg_id, run_no >>
  /\ UNCHANGED incLocals
  /\ UNCHANGED fullLocals

\* Step 4: the messages of the channel are done, next channel
IncEndPinChannel ==
  /\ pc = "inc_pin_channel"
  /\ msg_idx > Len(PinnedGet(catalog.PINNED_MESSAGES,
                             PinOrder(created_channels)[pin_idx]))
  /\ pc' = "inc_pin"
  /\ pin_idx' = pin_idx + 1
  /\ UNCHANGED << aux, catalog, guild0, dry_run, exit_code, role_ids, channels, idx,
                  msg_idx, msg_id, log, budget, run_no, guild >>
  /\ UNCHANGED incLocals
  /\ UNCHANGED fullLocals

\* main() returns: "Done"
IncFinish ==
  /\ pc = "inc_pin"
  /\ pin_idx > Len(PinOrder(created_channels))
  /\ Exit(0)
  /\ UNCHANGED << aux, catalog, guild0, dry_run, role_ids, channels, idx, pin_idx,
                  msg_idx, msg_id, log, budget, run_no, guild >>
  /\ UNCHANGED incLocals
  /\ UNCHANGED fullLocals

\* the operator starts the variant again: a new process, the same server
IncRerun ==
  /\ pc = "exit"
  /\ run_no < MaxRuns
  /\ run_no' = run_no + 1
  /\ Restart("inc_main")
  /\ UNCHANGED << aux, catalog, guild0, dry_run, log, budget, guild >>

(* ------------------------------------------------------------------ *)
\* the feed channels the generated pin catalogs have messages for
FeedKeys == <<"crypto-news", "price-ticker">>

\* a generated pin catalog over FeedKeys, MaxMsgs messages each, with the
\* placeholder in the message at place (<<0, 0>>: in none)
FeedPinned(place) ==
  [k \in DOMAIN FeedKeys |->
     Entry(FeedKeys[k], [m \in 1..MaxMsgs |-> place = <<k, m>>])]

\* where the placeholder may sit in a generated feed pin catalog
FeedPlaces == {<<0, 0>>} \cup ((DOMAIN FeedKeys) \X (1..MaxMsgs))

\* a provisioned server: the BOTS category with its command channel, none
\* of the feed channels yet, the Unverified role among the roles
ProvisionedGuild ==
  [channels |-> << [id |-> "1", name |-> "COMMUNITY", type |-> CH_CATEGORY,
                    parent_id |-> ""],
                   [id |-> "2", name |-> "BOTS", type |-> CH_CATEGORY,
                    parent_id |-> ""],
                   [id |-> "3", name |-> "bot-commands", type |-> CH_TEXT,
                    parent_id |-> "2"] >>,
   roles |-> << [id |-> GUILD_ID, name |-> "@everyone"],
                [id |-> "4", name |-> "Unverified"],
                [id |-> "5", name |-> "Member"] >>,
   messages |-> <<>>, pins |-> {}, next_id |-> 6]

\* a server edited by hand: the category spelled "Bots", a second category
\* "bots" after it, price-ticker there already in both of them, the first
\* with a pinned message of its own, no Unverified role
HandEditedGuild ==
  [channels |-> << [id |-> "1", name |-> "Bots", type |-> CH_CATEGORY,
                    parent_id |-> ""],
                   [id |-> "2", name |-> "price-ticker", type |-> CH_TEXT,
                    parent_id |-> "1"],
                   [id |-> "3", name |-> "bots", type |-> CH_CATEGORY,
                    parent_id |-> ""],
                   [id |-> "4", name |-> "price-ticker", type |-> CH_TEXT,
                    parent_id |-> "3"] >>,
   roles |-> << [id |-> GUILD_ID, name |-> "@everyone"],
                [id |-> "5", name |-> "Member"] >>,
   messages |-> << [id |-> "6", channel_id |-> "2",
                    content |-> Body(<<"by hand", 1>>, FALSE)] >>,
   pins |-> {"6"}, next_id |-> 7]

\* a server without a BOTS category: a text channel of that name and a
\* category named Robots do not count
NoCategoryGuild ==
  [channels |-> << [id |-> "1", name |-> "Robots", type |-> CH_CATEGORY,
                    parent_id |-> ""],
                   [id |-> "2", name |-> "bots", type |-> CH_TEXT,
                    parent_id |-> "1"] >>,
   roles |-> << [id |-> GUILD_ID, name |-> "@everyone"] >>,
   messages |-> <<>>, pins |-> {}, next_id |-> 3]

\* the servers the variant is started against
IncGuilds ==
  {ProvisionedGuild, HandEditedGuild, NoCategoryGuild, EmptyGuild}

\* the variant reads PINNED_MESSAGES of the catalog only: the source's, or
\* a generated one
InitInc ==
  /\ catalog \in {SourceCatalog}
                 \cup {[SourceCatalog EXCEPT !.PINNED_MESSAGES = FeedPinned(p)]
                         : p \in FeedPlaces}
  /\ budget = MaxFailures
  /\ dry_run \in BOOLEAN
  /\ guild \in IncGuilds
  /\ guild0 = guild
  /\ log = <<>>
  /\ run_no = 1
  /\ Start("inc_main")
  /\ Idle

NextInc ==
  \/ IncFetchChannels
  \/ IncFetchRoles
  \/ IncCreateChannel
  \/ IncEndCreate
  \/ IncPinChannel
  \/ IncSendMessage
  \/ IncPinMessage
  \/ IncEndPinChannel
  \/ IncFinish
  \/ IncRerun

SpecInc == InitInc /\ [][NextInc]_vars

\* one invocation of either script, in either mode
InitModes == Init \/ InitInc

NextModes ==
  \/ FetchChannels
  \/ DeleteChannel
  \/ EndDelete
  \/ CreateRole
  \/ ReorderRoles
  \/ ValidateRequiredRoles
  \/ CreateCategory
  \/ CreateChannel
  \/ EndCategory
  \/ PinPreflight
  \/ PinChannel
  \/ SendMessage
  \/ PinMessage
  \/ EndPinChannel
  \/ Finish
  \/ IncFetchChannels
  \/ IncFetchRoles
  \/ IncCreateChannel
  \/ IncEndCreate
  \/ IncPinChannel
  \/ IncSendMessage
  \/ IncPinMessage
  \/ IncEndPinChannel
  \/ IncFinish

SpecModes == InitModes /\ [][NextModes]_vars

(* ------------------------------------------------------------------ *)
(* The permission compiler by itself                                   *)
(* ------------------------------------------------------------------ *)

\* the four templates
Templates == {"read_only", "community", "governance", "team_only"}

\* the roles the templates refer to
TemplateRoles ==
  {"Unverified", "Member", "Contributor", "Founder", "Core Team", "Moderator"}

\* the id the remote service gave to a role
RoleIdOf(name) ==
  CASE name = "Founder" -> "101"
    [] name = "Core Team" -> "102"
    [] name = "Moderator" -> "103"
    [] name = "Contributor" -> "104"
    [] name = "Member" -> "105"
    [] name = "Unverified" -> "106"

\* role_ids with every referenced role resolved
FullRoleMap == [n \in TemplateRoles |-> RoleIdOf(n)]

\* role_ids after any of the role creations failed
RoleMaps == {[n \in S |-> RoleIdOf(n)] : S \in SUBSET TemplateRoles}

\* the compilation with `overwrites` kept from one call to the next
CompileAccumulates ==
  /\ pc \in {"_build_overwrites", "compiled"}
  /\ compiled' = compiled \o _build_overwrites(template_arg, GUILD_ID, role_ids)
  /\ pc' = IF pc = "compiled" THEN "compiled_again" ELSE "compiled"
  /\ UNCHANGED << template_arg, transport, bridge, formatter, credentials,
                  catalog, dry_run, exit_code,
                  role_ids, channel_ids, channels, idx, cat_idx, ch_idx,
                  cat_id, pin_idx, msg_idx, msg_id, bots_category_id,
                  existing_channel_names, overwrites, created_channels, log,
                  budget, run_no, guild, guild0 >>

\* one call of self._build_overwrites(template), and a second one with the
\* same template after it
Compile ==
  /\ pc \in {"_build_overwrites", "compiled"}
  /\ compiled' = _build_overwrites(template_arg, GUILD_ID, role_ids)
  /\ pc' = IF pc = "compiled" THEN "compiled_again" ELSE "compiled"
  /\ UNCHANGED << template_arg, transport, bridge, formatter, credentials,
                  catalog, dry_run, exit_code,
                  role_ids, channel_ids, channels, idx, cat_idx, ch_idx,
                  cat_id, pin_idx, msg_idx, msg_id, bots_category_id,
                  existing_channel_names, overwrites, created_channels, log,
                  budget, run_no, guild, guild0 >>

\* a template and a role map, about to be compiled
InitCompiler ==
  /\ catalog = SourceCatalog
  /\ dry_run = FALSE
  /\ guild = EmptyGuild
  /\ guild0 = guild
  /\ log = <<>>
  /\ budget = 0
  /\ run_no = 1
  /\ pc = "_build_overwrites"
  /\ exit_code = -1
  /\ role_ids \in RoleMaps
  /\ channel_ids = EmptyDict
  /\ channels = <<>>
  /\ idx = 1
  /\ cat_idx = 1
  /\ ch_idx = 1
  /\ cat_id = ""
  /\ pin_idx = 1
  /\ msg_idx = 1
  /\ msg_id = ""
  /\ bots_category_id = ""
  /\ existing_channel_names = {}
  /\ overwrites = <<>>
  /\ created_channels = EmptyDict
  /\ call = NONE
  /\ resp = NONE
  /\ ret = NONE
  /\ clock = 0
  /\ wire = <<>>
  /\ answers = <<>>
  /\ stdout = <<>>
  /\ template_arg \in Templates
  /\ compiled = <<>>
  /\ Quiet

NextCompiler == Compile

SpecCompiler == InitCompiler /\ [][NextCompiler]_vars

(* ------------------------------------------------------------------ *)
(* Transport, one call step by step: DiscordClient._request            *)
(* (setup_discord.py 94-134) and discord_get                           *)
(* (discord_telegram_bridge.py 76-91)                                  *)
(* ------------------------------------------------------------------ *)

\* how many 429 answers in a row the remote service gives to one call
MaxRetries == 2

\* how long a sleep may overrun
MaxOverrun == 1

\* the response bodies of the remote service, as text (quotes left out)
RateBodies == {"{retry_after: 0}", "{retry_after: 2}", "{message: slow down}"}

\* bodies of success answers
JsonBodies == {"{id: 41}", "[{id: 41}]", "{}", "[]"}

\* bodies of error answers; the second echoes a credential
ErrorBodies == {"{message: Missing Access}", "{message: bad token abc.def}", ""}

\* resp.json(): the decoded body
Json(text) ==
  CASE text = "{retry_after: 0}" -> JDict([retry_after |-> 0])
    [] text = "{retry_after: 2}" -> JDict([retry_after |-> 2])
    [] text = "{message: slow down}" -> JDict([message |-> "slow down"])
    [] text = "{id: 41}" -> JDict([id |-> "41"])
    [] text = "[{id: 41}]" -> JList(<<[id |-> "41"]>>)
    [] text = "{}" -> JDict(EmptyDict)
    [] text = "[]" -> JList(<<>>)
    [] text = "{message: Missing Access}" ->
         JDict([message |-> "Missing Access"])
    [] text = "{message: bad token abc.def}" ->
         JDict([message |-> "bad token abc.def"])

\* the statuses the remote service answers with
Statuses == {200, 201, 202, 204, 304, 400, 401, 403, 404, 429, 500}

\* the answers of the remote service: a 2xx answer with content carries
\* JSON, a 204 carries nothing, a 429 carries the retry-after object
Responses ==
  [status : {200, 201, 202}, body : JsonBodies]
    \cup [status : {204}, body : {""}]
    \cup [status : {429}, body : RateBodies]
    \cup [status : Statuses \ {200, 201, 202, 204, 429}, body : ErrorBodies]

\* method.upper()
MethodUpper(method) ==
  CASE method = "get" -> "GET"
    [] method = "post" -> "POST"
    [] method = "put" -> "PUT"
    [] method = "delete" -> "DELETE"
    [] method = "patch" -> "PATCH"

\* the calls made in the transport's specification: get, post, delete, put
\* and patch of DiscordClient, and discord_get of the bridge
ClientCalls ==
  { [impl |-> "_request", method |-> "get", path |-> GuildChannelsPath,
     json |-> NoBody],
    [impl |-> "_request", method |-> "post", path |-> GuildRolesPath,
     json |-> [name |-> "Founder"]],
    [impl |-> "_request", method |-> "delete", path |-> ChannelPath("1"),
     json |-> NoBody],
    [impl |-> "_request", method |-> "put", path |-> PinPath("1", "41"),
     json |-> NoBody],
    [impl |-> "_request", method |-> "patch", path |-> GuildRolesPath,
     json |-> [id |-> "41", position |-> 1]],
    [impl |-> "discord_get", method |-> "get", path |-> MessagesPath("1"),
     json |-> NoBody] }

\* data.get("retry_after", 1.0)
RetryAfter(r) == Get(Json(r.body).val, "retry_after", 1)

\* the line printed for a failure with the response text in it
CompletionWithBody(c, r) ==
  IF c.impl = "_request" /\ r.status \in {200, 201}
  THEN [ret |-> Json(r.body), printed |-> <<>>]
  ELSE IF c.impl = "_request" /\ r.status = 204
  THEN [ret |-> JDict(EmptyDict), printed |-> <<>>]
  ELSE [ret |-> NONE,
        printed |-> <<[kind |-> "HTTP", status |-> r.status,
                       method |-> MethodUpper(c.method), path |-> c.path,
                       text |-> r.body]>>]

\* 204 taken for a failure
CompletionStrict(c, r) ==
  IF r.status \in {200, 201}
  THEN [ret |-> Json(r.body), printed |-> <<>>]
  ELSE [ret |-> NONE,
        printed |-> <<[kind |-> "HTTP", status |-> r.status,
                       method |-> MethodUpper(c.method), path |-> c.path]>>]

\* what a call returns and prints on a response other than 429:
\* _request returns the decoded body on 200 and 201, {} on 204, and None
\* with a status line otherwise; discord_get returns the decoded body on
\* 200 only
Completion(c, r) ==
  IF c.impl = "_request"
  THEN IF r.status \in {200, 201}
       THEN [ret |-> Json(r.body), printed |-> <<>>]
       ELSE IF r.status = 204
       THEN [ret |-> JDict(EmptyDict), printed |-> <<>>]
       ELSE [ret |-> NONE,
             printed |-> <<[kind |-> "HTTP", status |-> r.status,
                            method |-> MethodUpper(c.method),
                            path |-> c.path]>>]
  ELSE IF r.status = 200
       THEN [ret |-> Json(r.body), printed |-> <<>>]
       ELSE [ret |-> NONE,
             printed |-> <<[kind |-> "Discord HTTP", status |-> r.status,
                            method |-> "GET", path |-> c.path]>>]

\* the dry-run branch of _request: the intended request is printed, the
\* payload too when there is one, and the stub is returned
DryRun ==
  /\ pc = "_request"
  /\ call.impl = "_request" /\ dry_run
  /\ stdout' = stdout
                 \o <<[kind |-> "DRY-RUN", method |-> MethodUpper(call.method),
                       path |-> call.path]>>
                 \o (IF call.json # NoBody
                     THEN <<[kind |-> "payload", json |-> call.json]>>
                     ELSE <<>>)
  /\ ret' = DRY_STUB
  /\ pc' = "returned"
  /\ UNCHANGED << call, resp, clock, wire, answers >>

\* the call enters its `while True` loop
Enter ==
  /\ pc = "_request"
  /\ ~(call.impl = "_request" /\ dry_run)
  /\ pc' = "request"
  /\ UNCHANGED transport

\* how many 429 answers the call has had
Retries == Cardinality({k \in DOMAIN answers : answers[k].status = 429})

\* session.request(method, url, **kwargs) / requests.get(...): the request
\* leaves and the answer is in resp
Request ==
  /\ pc = "request"
  /\ wire' = Append(wire, [method |-> call.method, path |-> call.path,
                           json |-> call.json, at |-> clock])
  /\ \E r \in Responses :
       /\ r.status = 429 => Retries < MaxRetries
       /\ resp' = r
       /\ answers' = Append(answers, [status |-> r.status, body |-> r.body,
                                      at |-> clock])
  /\ pc' = "response"
  /\ UNCHANGED << call, ret, clock, stdout >>

\* the 429 branch giving up after the wait
RateLimitedGivesUp ==
  /\ pc = "response"
  /\ resp.status = 429
  /\ \E over \in 0..MaxOverrun : clock' = clock + RetryAfter(resp) + over
  /\ ret' = NONE
  /\ pc' = "returned"
  /\ UNCHANGED << call, resp, wire, answers, stdout >>

\* the 429 branch without its wait
RateLimitedNoSleep ==
  /\ pc = "response"
  /\ resp.status = 429
  /\ pc' = "request"
  /\ UNCHANGED << call, resp, ret, clock, wire, answers, stdout >>

\* the 429 branch: time.sleep(retry_after), which returns no sooner than
\* asked, then `continue`
RateLimited ==
  /\ pc = "response"
  /\ resp.status = 429
  /\ stdout' = IF call.impl = "_request"
               THEN Append(stdout, [kind |-> "RATE LIMIT",
                                    retry_after |-> RetryAfter(resp)])
               ELSE stdout
  /\ \E over \in 0..MaxOverrun : clock' = clock + RetryAfter(resp) + over
  /\ pc' = "request"
  /\ UNCHANGED << call, resp, ret, wire, answers >>

\* every other status: the call returns
Return ==
  /\ pc = "response"
  /\ resp.status # 429
  /\ ret' = Completion(call, resp).ret
  /\ stdout' = stdout \o Completion(call, resp).printed
  /\ pc' = "returned"
  /\ UNCHANGED << call, resp, clock, wire, answers >>

\* the scripts' own variables, at rest while the transport is looked at
\* by itself
Parked(entry) ==
  /\ catalog = SourceCatalog
  /\ guild = EmptyGuild
  /\ guild0 = guild
  /\ log = <<>>
  /\ budget = 0
  /\ run_no = 1
  /\ Start(entry)

\* what the transport's steps leave alone
scripts ==
  << catalog, dry_run, exit_code, role_ids, channel_ids, channels, idx,
     cat_idx, ch_idx, cat_id, pin_idx, msg_idx, msg_id, bots_category_id,
     existing_channel_names, overwrites, created_channels, log, budget,
     run_no, guild, guild0 >>

\* one call of the transport, about to start
InitTransport ==
  /\ Parked("_request")
  /\ call \in ClientCalls
  /\ dry_run \in (IF call.impl = "_request" THEN BOOLEAN ELSE {FALSE})
  /\ resp = NONE
  /\ ret = NONE
  /\ clock = 0
  /\ wire = <<>>
  /\ answers = <<>>
  /\ stdout = <<>>
  /\ template_arg = ""
  /\ compiled = <<>>
  /\ Quiet

\* the scripts' variables that a credential loader leaves alone
scripts_but_exit ==
  << catalog, dry_run, role_ids, channel_ids, channels, idx, cat_idx, ch_idx,
     cat_id, pin_idx, msg_idx, msg_id, bots_category_id,
     existing_channel_names, overwrites, created_channels, log, budget,
     run_no, guild, guild0 >>

\* what one transport call leaves alone
offstage == << scripts, compiler, bridge, formatter, credentials >>

NextTransport ==
  \/ DryRun /\ UNCHANGED offstage
  \/ Enter /\ UNCHANGED offstage
  \/ Request /\ UNCHANGED offstage
  \/ RateLimited /\ UNCHANGED offstage
  \/ Return /\ UNCHANGED offstage

SpecTransport == InitTransport /\ [][NextTransport]_vars

(* ------------------------------------------------------------------ *)
(* Bridge, message formatting (discord_telegram_bridge.py 150-173)     *)
(*                                                                     *)
(* A str is the sequence of its code points, so that len() is Len.     *)
(* ------------------------------------------------------------------ *)

\* the ceiling of a Telegram message, `4096 - len(header)`
TELEGRAM_LIMIT == 4096

\* how much the cut leaves free for the marker, `max_len - 20`
MARKER_ROOM == 20

\* "\n\n_(truncated)_"
TRUNCATED ==
  << "\n", "\n", "_", "(", "t", "r", "u", "n", "c", "a", "t", "e", "d", ")",
     "_" >>

\* "📢 *RillCoin Announcement*\n\n"
ANNOUNCEMENT_HEADER ==
  << "U+1F4E2", " ", "*", "R", "i", "l", "l", "C", "o", "i", "n", " ", "A",
     "n", "n", "o", "u", "n", "c", "e", "m", "e", "n", "t", "*", "\n", "\n" >>

\* "🔧 *Dev Update*\n\n"
DEV_UPDATE_HEADER ==
  << "U+1F527", " ", "*", "D", "e", "v", " ", "U", "p", "d", "a", "t", "e",
     "*", "\n", "\n" >>

\* the code points of a channel name
Chars(name) ==
  CASE name = "announcements" ->
         << "a", "n", "n", "o", "u", "n", "c", "e", "m", "e", "n", "t", "s" >>
    [] name = "dev-updates" ->
         << "d", "e", "v", "-", "u", "p", "d", "a", "t", "e", "s" >>
    [] name = "general" -> << "g", "e", "n", "e", "r", "a", "l" >>
    [] OTHER -> << >>

\* the header of a channel: the if / elif / else at 153-159
Header(channel_name) ==
  IF channel_name = "announcements" THEN ANNOUNCEMENT_HEADER
  ELSE IF channel_name = "dev-updates" THEN DEV_UPDATE_HEADER
  ELSE << "*", "#" >> \o Chars(channel_name) \o << "*", "\n", "\n" >>

\* where "## " occurs in s; two occurrences cannot overlap
HeadingMarks(s) ==
  {i \in 1..(Len(s) - 2) : s[i] = "#" /\ s[i + 1] = "#" /\ s[i + 2] = " "}

\* text.replace("## ", "*")
RECURSIVE ReplaceHeadings(_)
ReplaceHeadings(s) ==
  IF HeadingMarks(s) = {} THEN s
  ELSE LET i == CHOOSE m \in HeadingMarks(s) :
                  \A n \in HeadingMarks(s) : m <= n
       IN SubSeq(s, 1, i - 1) \o << "*" >>
            \o ReplaceHeadings(SubSeq(s, i + 3, Len(s)))

\* s[:n], n of either sign
Slice(s, n) ==
  IF n >= 0 THEN SubSeq(s, 1, IF n < Len(s) THEN n ELSE Len(s))
  ELSE SubSeq(s, 1, IF Len(s) + n > 0 THEN Len(s) + n ELSE 0)

\* format_for_telegram with a cut that leaves no room for the marker
format_for_telegram_tight(content, channel_name) ==
  LET header == Header(channel_name)
      text == ReplaceHeadings(content)
      max_len == TELEGRAM_LIMIT - Len(header)
  IN header \o (IF Len(text) > max_len
                THEN Slice(text, max_len) \o TRUNCATED
                ELSE text)

\* format_for_telegram(content, channel_name)
format_for_telegram(content, channel_name) ==
  LET header == Header(channel_name)
      text == ReplaceHeadings(content)
      max_len == TELEGRAM_LIMIT - Len(header)
  IN header \o (IF Len(text) > max_len
                THEN Slice(text, max_len - MARKER_ROOM) \o TRUNCATED
                ELSE text)

\* how far below the ceiling and above it the generated contents reach
MaxSlack == 40

\* n times the code point c
Rep(c, n) == [k \in 1..n |-> c]

\* how the generated contents begin: plain, with one markdown heading, with
\* two, with a lone "#"
Openings ==
  { << >>, << "#", "#", " " >>, << "#", "#", " ", "T", "\n", "#", "#", " " >>,
    << "#", " " >> }

\* the lengths of the filler that follows the opening
FillerLengths ==
  (0..2) \cup ((TELEGRAM_LIMIT - MaxSlack)..(TELEGRAM_LIMIT + MaxSlack))

\* the channel names format_for_telegram is called with, and one more
FormatChannels == {"announcements", "dev-updates", "general"}

\* one call of format_for_telegram
Format ==
  /\ pc = "format_for_telegram"
  /\ formatted' = format_for_telegram(fmt_content, fmt_channel)
  /\ pc' = "formatted"
  /\ UNCHANGED << fmt_content, fmt_channel, scripts, transport, compiler,
                  bridge, credentials >>

\* a content and a channel name, about to be formatted
InitFormat ==
  /\ Parked("format_for_telegram")
  /\ dry_run = FALSE
  /\ call = NONE
  /\ resp = NONE
  /\ ret = NONE
  /\ clock = 0
  /\ wire = <<>>
  /\ answers = <<>>
  /\ stdout = <<>>
  /\ template_arg = ""
  /\ compiled = <<>>
  /\ state_file = EmptyDict
  /\ state = EmptyDict
  /\ feed = EmptyDict
  /\ new_messages = <<>>
  /\ once = FALSE
  /\ relay = <<>>
  /\ forwarded = 0
  /\ \E o \in Openings, n \in FillerLengths : fmt_content = o \o Rep("a", n)
  /\ fmt_channel \in FormatChannels
  /\ formatted = <<>>
  /\ env_file = NONE
  /\ environ = EmptyDict
  /\ has_dotenv = FALSE
  /\ script = ""
  /\ env = EmptyDict
  /\ stdin = NONE

NextFormat == Format

SpecFormat == InitFormat /\ [][NextFormat]_vars

(* ------------------------------------------------------------------ *)
(* Bridge: discord_telegram_bridge.py 185-342                          *)
(*                                                                     *)
(* discord_get and requests.post either answer or raise (no            *)
(* connection, timeout); main's loop catches what they raise.           *)
(* ------------------------------------------------------------------ *)

\* BRIDGE_CHANNELS
BRIDGE_CHANNELS == << "announcements", "dev-updates" >>

\* "?limit=10"
MESSAGES_LIMIT == 10

\* s.reverse()
Reverse(s) == [k \in 1..Len(s) |-> s[Len(s) + 1 - k]]

\* what a request of the bridge can come to: an answer with status 200, an
\* answer with another status, an exception
BridgeOutcomes == {"ok"} \cup (IF budget > 0 THEN {"fail", "raise"} ELSE {})

\* a failed request, answered or not, uses up one unit of the budget
BridgeCharge(o) == budget' = IF o = "ok" THEN budget ELSE budget - 1

\* discord_get(path, token): the bridge reads in every mode
BridgeGet(path, o) ==
  log' = Append(log, [method |-> "get", path |-> path, json |-> NoBody,
                      outcome |-> o, wire |-> TRUE, run |-> run_no])

\* f"/channels/{ch_id}/messages?limit=10", with f"&after={last_id}"
FeedPath(ch_id, last_id) ==
  IF StrTruthy(last_id)
  THEN << "/channels/", ch_id, "/messages?limit=10", "&after=", last_id >>
  ELSE << "/channels/", ch_id, "/messages?limit=10" >>

\* what Discord answers to the messages request: newest first, at most
\* MESSAGES_LIMIT of them, the ones right after last_id when it is given,
\* the most recent ones otherwise
Page(ch_feed, last_id) ==
  LET at == {k \in DOMAIN ch_feed : ch_feed[k].id = last_id}
      from == IF at = {} THEN 0 ELSE CHOOSE k \in at : TRUE
      pool == SubSeq(ch_feed, from + 1, Len(ch_feed))
      n == Len(pool)
      window == IF StrTruthy(last_id)
                THEN SubSeq(pool, 1, IF n < MESSAGES_LIMIT THEN n
                                     ELSE MESSAGES_LIMIT)
                ELSE SubSeq(pool, IF n > MESSAGES_LIMIT
                                  THEN n - MESSAGES_LIMIT + 1 ELSE 1, n)
  IN Reverse(window)

\* find_channel_ids, the dict: the id of the last channel of each bridged
\* name
find_channel_ids(chs) ==
  LET hits(name) == {k \in DOMAIN chs : Get(chs[k], "name", "") = name}
      names == {name \in Range(BRIDGE_CHANNELS) : hits(name) # {}}
  IN [name \in names |->
        chs[CHOOSE k \in hits(name) : \A j \in hits(name) : j <= k].id]

\* find_channel_ids, the order of the dict's keys: by first appearance
KeyOrder(chs) ==
  LET first == {k \in DOMAIN chs :
                  /\ Get(chs[k], "name", "") \in Range(BRIDGE_CHANNELS)
                  /\ \A j \in 1..(k - 1) :
                       Get(chs[j], "name", "") # Get(chs[k], "name", "")}
      kept == SelectSeqIdx(chs, first)
  IN [k \in DOMAIN kept |-> kept[k].name]

\* what the bridge's steps leave alone
backstage ==
  << catalog, role_ids, cat_idx, ch_idx, cat_id, pin_idx, msg_id,
     bots_category_id, existing_channel_names, overwrites, created_channels,
     guild, guild0, transport, compiler, formatter, credentials >>

\* main's `time.sleep(60)` after a poll that returned
PollInterval == 60

\* an exception leaves check_and_forward, had main's loop not caught it
RaiseEndsLoop ==
  /\ pc' = "exit"
  /\ exit_code' = 1

\* an exception leaves check_and_forward: main's loop catches it (340-342),
\* a --once process dies of it
Raise ==
  /\ pc' = IF once THEN "exit" ELSE "except"
  /\ exit_code' = IF once THEN 1 ELSE exit_code

\* check_and_forward, 228-235: load_state, find_channel_ids
BridgeLoad ==
  /\ pc = "check_and_forward"
  /\ state' = state_file
  /\ \E o \in BridgeOutcomes :
       /\ BridgeGet(GuildChannelsPath, o)
       /\ BridgeCharge(o)
       /\ IF o = "raise"
          THEN Raise /\ UNCHANGED << channels, channel_ids >>
          ELSE LET result == IF o = "ok" THEN JList(guild.channels) ELSE NONE
                   found == IF Truthy(result) /\ IsList(result)
                            THEN find_channel_ids(result.val) ELSE EmptyDict
               IN /\ channels' = IF o = "ok" THEN guild.channels ELSE <<>>
                  /\ channel_ids' = found
                  /\ pc' = IF DOMAIN found = {} THEN "polled"
                           ELSE "bridge_channel"
                  /\ UNCHANGED exit_code
  /\ idx' = 1
  /\ forwarded' = 0
  /\ UNCHANGED << state_file, feed, new_messages, once, relay, msg_idx,
                  dry_run, run_no, backstage >>

\* one iteration of `for ch_name, ch_id in channel_ids.items()`, up to the
\* message loop (238-250)
BridgeFetch ==
  /\ pc = "bridge_channel"
  /\ idx <= Len(KeyOrder(channels))
  /\ LET ch_name == KeyOrder(channels)[idx]
         ch_id == channel_ids[ch_name]
         last_id == Get(state, ch_name, "")
     IN \E o \in BridgeOutcomes :
          /\ BridgeGet(FeedPath(ch_id, last_id), o)
          /\ BridgeCharge(o)
          /\ IF o = "raise"
             THEN Raise /\ UNCHANGED << idx, new_messages >>
             ELSE LET messages == IF o = "ok"
                                  THEN JList(Page(feed[ch_name], last_id))
                                  ELSE NONE
                  IN /\ IF Truthy(messages) /\ IsList(messages)
                        THEN /\ new_messages' = Reverse(messages.val)
                             /\ pc' = "bridge_message"
                             /\ idx' = idx
                        ELSE /\ new_messages' = <<>>
                             /\ pc' = pc
                             /\ idx' = idx + 1
                     /\ UNCHANGED exit_code
  /\ msg_idx' = 1
  /\ UNCHANGED << state_file, state, feed, once, relay, forwarded, channels,
                  channel_ids, dry_run, run_no, backstage >>

\* telegram_send for one outcome: what it returns
Sent(o) == o \in {"dry", "ok"}

\* what telegram_send can come to
SendOutcomes == IF dry_run THEN {"dry"} ELSE BridgeOutcomes

\* one iteration of `for msg in messages` had the loop looked at the
\* content only and not at the author
BridgeForwardBots ==
  /\ pc = "bridge_message"
  /\ msg_idx <= Len(new_messages)
  /\ LET ch_name == KeyOrder(channels)[idx]
         msg == new_messages[msg_idx]
         m_id == Get(msg, "id", "")
         content == Get(msg, "content", <<>>)
     IN IF content = <<>>
        THEN /\ msg_idx' = msg_idx + 1
             /\ UNCHANGED << relay, state, forwarded, budget, pc, exit_code >>
        ELSE \E o \in SendOutcomes :
               /\ relay' = Append(relay,
                                  [channel |-> ch_name, id |-> m_id,
                                   text |-> format_for_telegram(content,
                                                                ch_name),
                                   outcome |-> o, run |-> run_no])
               /\ budget' = IF o \in {"fail", "raise"} THEN budget - 1
                            ELSE budget
               /\ IF o = "raise"
                  THEN Raise /\ UNCHANGED << state, forwarded, msg_idx >>
                  ELSE /\ state' = IF Sent(o) THEN DictSet(state, ch_name, m_id)
                                   ELSE state
                       /\ forwarded' = IF Sent(o) THEN forwarded + 1
                                       ELSE forwarded
                       /\ msg_idx' = msg_idx + 1
                       /\ UNCHANGED << pc, exit_code >>
  /\ UNCHANGED << state_file, feed, new_messages, once, channels,
                  channel_ids, idx, log, dry_run, run_no, backstage >>

\* one iteration of `for msg in messages` (252-270)
BridgeForward ==
  /\ pc = "bridge_message"
  /\ msg_idx <= Len(new_messages)
  /\ LET ch_name == KeyOrder(channels)[idx]
         msg == new_messages[msg_idx]
         m_id == Get(msg, "id", "")
         content == Get(msg, "content", <<>>)
         author == Get(msg, "author", EmptyDict)
     IN IF content = <<>> \/ Get(author, "bot", FALSE)
        THEN /\ msg_idx' = msg_idx + 1
             /\ UNCHANGED << relay, state, forwarded, budget, pc, exit_code >>
        ELSE \E o \in SendOutcomes :
               /\ relay' = Append(relay,
                                  [channel |-> ch_name, id |-> m_id,
                                   text |-> format_for_telegram(content,
                                                                ch_name),
                                   outcome |-> o, run |-> run_no])
               /\ budget' = IF o \in {"fail", "raise"} THEN budget - 1
                            ELSE budget
               /\ IF o = "raise"
                  THEN Raise /\ UNCHANGED << state, forwarded, msg_idx >>
                  ELSE /\ state' = IF Sent(o) THEN DictSet(state, ch_name, m_id)
                                   ELSE state
                       /\ forwarded' = IF Sent(o) THEN forwarded + 1
                                       ELSE forwarded
                       /\ msg_idx' = msg_idx + 1
                       /\ UNCHANGED << pc, exit_code >>
  /\ UNCHANGED << state_file, feed, new_messages, once, channels,
                  channel_ids, idx, log, dry_run, run_no, backstage >>

\* the end of one channel: `if messages: state[ch_name] = latest_id`
\* (272-275)
BridgeEndChannel ==
  /\ pc = "bridge_message"
  /\ msg_idx > Len(new_messages)
  /\ LET ch_name == KeyOrder(channels)[idx]
         last_id == Get(state_file, ch_name, "")
         latest_id == Get(new_messages[Len(new_messages)], "id", last_id)
     IN state' = IF new_messages # <<>>
                 THEN DictSet(state, ch_name, latest_id) ELSE state
  /\ idx' = idx + 1
  /\ pc' = "bridge_channel"
  /\ UNCHANGED << state_file, feed, new_messages, once, relay, forwarded,
                  channels, channel_ids, msg_idx, log, budget, exit_code,
                  dry_run, run_no, backstage >>

\* the end of check_and_forward: `if not dry_run: save_state(state)`
\* (277-280)
BridgeSave ==
  /\ pc = "bridge_channel"
  /\ idx > Len(KeyOrder(channels))
  /\ state_file' = IF dry_run THEN state_file ELSE state
  /\ pc' = "polled"
  /\ UNCHANGED << state, feed, new_messages, once, relay, forwarded,
                  channels, channel_ids, idx, msg_idx, log, budget,
                  exit_code, dry_run, run_no, backstage >>

\* main, --once: the poll is over and so is the process (322-325)
BridgeOnce ==
  /\ pc = "polled"
  /\ once
  /\ Exit(0)
  /\ UNCHANGED << bridge, channels, channel_ids, idx, msg_idx, log, budget,
                  dry_run, run_no, backstage >>

\* the next poll: main's loop after its sleep (331-342), or cron starting
\* the --once process again
BridgePoll ==
  /\ \/ pc \in {"polled", "except"} /\ ~once
     \/ pc = "exit" /\ once
  /\ run_no < MaxRuns
  /\ run_no' = run_no + 1
  /\ pc' = "check_and_forward"
  /\ exit_code' = -1
  /\ state' = EmptyDict
  /\ channel_ids' = EmptyDict
  /\ channels' = <<>>
  /\ new_messages' = <<>>
  /\ idx' = 1
  /\ msg_idx' = 1
  /\ forwarded' = 0
  /\ clock' = IF once THEN clock
              ELSE IF pc = "except" THEN clock + 60    \* 342
              ELSE clock + PollInterval                \* 336
  /\ UNCHANGED << state_file, feed, once, relay, log, budget, dry_run,
                  catalog, role_ids, cat_idx, ch_idx, cat_id, pin_idx,
                  msg_id, incLocals, guild, guild0, call, resp, ret, wire,
                  answers, stdout, compiler, formatter, credentials >>

\* Ctrl+C in continuous mode (331-342): inside the try, during the poll or
\* the sleep after it, `except KeyboardInterrupt` prints and breaks and main
\* returns; during the sleep of the `except Exception` handler nothing
\* catches it and the process dies of it
KeyboardInterrupt ==
  /\ ~once
  /\ pc \in {"check_and_forward", "bridge_channel", "bridge_message",
             "polled", "except"}
  /\ Exit(IF pc = "except" THEN 130 ELSE 0)
  /\ UNCHANGED << bridge, channels, channel_ids, idx, msg_idx, log, budget,
                  dry_run, run_no, backstage >>

\* a member's message: a text with a markdown heading
TextPost ==
  [content |-> << "#", "#", " ", "N", "e", "w", "s" >>,
   author |-> [bot |-> FALSE]]

\* the kinds of message a channel holds: a text, a message without text (an
\* embed, an attachment), a bot's message
Posts ==
  { TextPost,
    [content |-> << >>, author |-> [bot |-> FALSE]],
    [content |-> << "t", "i", "c", "k" >>, author |-> [bot |-> TRUE]] }

\* the snowflake of the k-th message of a channel
Snowflake(ch_name, k) ==
  ToString((IF ch_name = "announcements" THEN 20 ELSE 30) + k)

\* a message as the messages request shows it
Message(ch_name, k, post) ==
  [id |-> Snowflake(ch_name, k), content |-> post.content,
   author |-> post.author]

\* the channel with its messages
Filled(ch_name, posts) ==
  [k \in DOMAIN posts |-> Message(ch_name, k, posts[k])]

\* the sequences over S of length n at most
RECURSIVE SeqUpTo(_, _)
SeqUpTo(S, n) ==
  IF n = 0 THEN { << >> }
  ELSE LET shorter == SeqUpTo(S, n - 1)
       IN shorter \cup {Append(s, x) : s \in shorter, x \in S}

\* a member posts an announcement between two polls
Post ==
  /\ pc \in {"polled", "except"} \/ (pc = "exit" /\ once)
  /\ Len(feed["announcements"]) < MaxMsgs
  /\ feed' = [feed EXCEPT
                !["announcements"] =
                  Append(@, Message("announcements", Len(@) + 1, TextPost))]
  /\ UNCHANGED << state_file, state, new_messages, once, relay, forwarded,
                  pc, exit_code, channels, channel_ids, idx, msg_idx, log,
                  budget, dry_run, run_no, backstage >>

\* the server the bridge reads: both bridged channels and one more
BridgeGuild ==
  [channels |-> << [id |-> "10", name |-> "general", type |-> CH_TEXT,
                    parent_id |-> ""],
                   [id |-> "11", name |-> "announcements",
                    type |-> CH_ANNOUNCEMENT, parent_id |-> ""],
                   [id |-> "12", name |-> "dev-updates", type |-> CH_TEXT,
                    parent_id |-> ""] >>,
   roles |-> <<>>, messages |-> <<>>, pins |-> {}, next_id |-> 40]

\* the bridge is started: no checkpoint yet, some messages in the channels
InitBridge ==
  /\ catalog = SourceCatalog
  /\ guild \in {BridgeGuild, EmptyGuild}
  /\ guild0 = guild
  /\ log = <<>>
  /\ budget = MaxFailures
  /\ run_no = 1
  /\ Start("check_and_forward")
  /\ dry_run \in BOOLEAN
  /\ call = NONE
  /\ resp = NONE
  /\ ret = NONE
  /\ clock = 0
  /\ wire = <<>>
  /\ answers = <<>>
  /\ stdout = <<>>
  /\ template_arg = ""
  /\ compiled = <<>>
  /\ state_file = EmptyDict
  /\ state = EmptyDict
  /\ \E a \in SeqUpTo(Posts, MaxMsgs) :
       feed = [ch_name \in Range(BRIDGE_CHANNELS) |->
                 IF ch_name = "announcements" THEN Filled(ch_name, a)
                 ELSE Filled(ch_name, << TextPost >>)]
  /\ new_messages = <<>>
  /\ once \in BOOLEAN
  /\ relay = <<>>
  /\ forwarded = 0
  /\ fmt_content = <<>>
  /\ fmt_channel = ""
  /\ formatted = <<>>
  /\ env_file = NONE
  /\ environ = EmptyDict
  /\ has_dotenv = FALSE
  /\ script = ""
  /\ env = EmptyDict
  /\ stdin = NONE

NextBridge ==
  \/ BridgeLoad
  \/ BridgeFetch
  \/ BridgeForward
  \/ BridgeEndChannel
  \/ BridgeSave
  \/ BridgeOnce
  \/ BridgePoll
  \/ Post

SpecBridge == InitBridge /\ [][NextBridge]_vars

(* ------------------------------------------------------------------ *)
(* Credential loading: setup_discord.py 29-73 (both provisioning       *)
(* scripts), discord_telegram_bridge.py 35-66                          *)
(*                                                                     *)
(* marketing/.env is the dict its lines parse to. A loader that         *)
(* returns hands over to its script's first step, where Spec, SpecInc  *)
(* and SpecBridge start.                                               *)
(* ------------------------------------------------------------------ *)

\* the keys load_credentials reads from os.environ
ProvisioningKeys == << "DISCORD_BOT_TOKEN", "DISCORD_GUILD_ID" >>

\* required, in the bridge's load_env
BridgeKeys ==
  << "DISCORD_BOT_TOKEN", "DISCORD_GUILD_ID", "TELEGRAM_BOT_TOKEN",
     "TELEGRAM_CHAT_ID" >>

\* the scripts that call load_credentials
ProvisioningScripts == {"setup_discord", "add_feed_channels"}

\* the keys a script requires
RequiredKeys(s) ==
  IF s \in ProvisioningScripts THEN ProvisioningKeys ELSE BridgeKeys

\* where main goes on once the credentials are loaded
EntryOf(s) ==
  CASE s = "setup_discord" -> "confirm"
    [] s = "add_feed_channels" -> "inc_main"
    [] s = "discord_telegram_bridge" -> "check_and_forward"

\* for k, v in env_vars.items(): os.environ.setdefault(k, v)
SetDefaults(base, defaults) ==
  [k \in DOMAIN base \cup DOMAIN defaults |->
     IF k \in DOMAIN base THEN base[k] ELSE defaults[k]]

\* [k for k in required if k not in env or not env[k]]
MissingIn(required, d) ==
  SelectSeq(required, LAMBDA k : k \notin DOMAIN d \/ ~StrTruthy(d[k]))

\* load_credentials(): python-dotenv when it can be imported, load_env and
\* os.environ.setdefault otherwise; then the two keys, one after the other
LoadCredentials ==
  /\ pc = "load_credentials"
  /\ script \in ProvisioningScripts
  /\ IF ~has_dotenv /\ env_file = NONE
     THEN /\ stdout' = Append(stdout, << "ERROR: .env file not found at ",
                                         ".env" >>)
          /\ Exit(1)
          /\ UNCHANGED << environ, env >>
     ELSE LET merged == SetDefaults(environ,
                                    IF env_file = NONE THEN EmptyDict
                                    ELSE env_file.val)
              token == Get(merged, "DISCORD_BOT_TOKEN", "")
              guild_id == Get(merged, "DISCORD_GUILD_ID", "")
          IN /\ environ' = merged
             /\ IF ~StrTruthy(token)
                THEN /\ stdout' = Append(stdout,
                                         << "ERROR: ", "DISCORD_BOT_TOKEN",
                                            " is not set in .env or environment." >>)
                     /\ Exit(1)
                     /\ UNCHANGED env
                ELSE IF ~StrTruthy(guild_id)
                THEN /\ stdout' = Append(stdout,
                                         << "ERROR: ", "DISCORD_GUILD_ID",
                                            " is not set in .env or environment." >>)
                     /\ Exit(1)
                     /\ UNCHANGED env
                ELSE /\ env' = [k \in Range(ProvisioningKeys) |-> merged[k]]
                     /\ pc' = EntryOf(script)
                     /\ UNCHANGED << exit_code, stdout >>
  /\ UNCHANGED << env_file, has_dotenv, script, stdin, scripts_but_exit, call, resp,
                  ret, clock, wire, answers, compiler, bridge, formatter >>

\* f"ERROR: Missing required .env variables: {', '.join(missing)}" and one
\* line for each missing key
MissingReport(missing) ==
  << << "ERROR: Missing required .env variables: " >> \o missing,
     << "Add them to your .env file:" >> >>
    \o [k \in DOMAIN missing |-> << "  ", missing[k], "=your-value-here" >>]

\* the bridge's load_env()
LoadEnv ==
  /\ pc = "load_env"
  /\ script = "discord_telegram_bridge"
  /\ IF env_file = NONE
     THEN /\ stdout' = Append(stdout, << "ERROR: .env file not found at ",
                                         ".env" >>)
          /\ Exit(1)
          /\ UNCHANGED env
     ELSE LET missing == MissingIn(BridgeKeys, env_file.val)
          IN IF missing # << >>
             THEN /\ stdout' = stdout \o MissingReport(missing)
                  /\ Exit(1)
                  /\ UNCHANGED env
             ELSE /\ env' = env_file.val
                  /\ pc' = EntryOf(script)
                  /\ UNCHANGED << exit_code, stdout >>
  /\ UNCHANGED << env_file, environ, has_dotenv, script, stdin, scripts_but_exit,
                  call, resp, ret, clock, wire, answers, compiler, bridge,
                  formatter >>

\* the value a key has when it is set
ValueOf(k) == IF k = "DISCORD_GUILD_ID" THEN GUILD_ID ELSE "secret"

\* the dicts that have some of the keys, each set or empty
Settings(keys) ==
  UNION {{d \in [S -> {"", "secret", GUILD_ID}] :
            \A k \in S : d[k] \in {"", ValueOf(k)}} : S \in SUBSET keys}

\* marketing/.env: absent, or with some of the keys
EnvFiles(keys) == {NONE} \cup {JDict(d) : d \in Settings(keys)}

\* os.environ: some of the keys exported by the shell
Environs ==
  {d \in Settings(Range(ProvisioningKeys)) : \A k \in DOMAIN d : d[k] # ""}

\* a script is started
InitStartup ==
  /\ catalog = SourceCatalog
  /\ guild = EmptyGuild
  /\ guild0 = guild
  /\ log = <<>>
  /\ budget = 0
  /\ run_no = 1
  /\ dry_run = FALSE
  /\ call = NONE
  /\ resp = NONE
  /\ ret = NONE
  /\ clock = 0
  /\ wire = <<>>
  /\ answers = <<>>
  /\ stdout = <<>>
  /\ template_arg = ""
  /\ compiled = <<>>
  /\ state_file = EmptyDict
  /\ state = EmptyDict
  /\ feed = EmptyDict
  /\ new_messages = <<>>
  /\ once = FALSE
  /\ relay = <<>>
  /\ forwarded = 0
  /\ fmt_content = <<>>
  /\ fmt_channel = ""
  /\ formatted = <<>>
  /\ env = EmptyDict
  /\ stdin = NONE
  /\ \/ /\ script \in ProvisioningScripts
        /\ Start("load_credentials")
        /\ env_file \in EnvFiles(Range(ProvisioningKeys))
        /\ environ \in Environs
        /\ has_dotenv \in BOOLEAN
     \/ /\ script = "discord_telegram_bridge"
        /\ Start("load_env")
        /\ env_file \in EnvFiles(Range(BridgeKeys))
        /\ environ = EmptyDict
        /\ has_dotenv = FALSE

NextStartup ==
  \/ LoadCredentials
  \/ LoadEnv

SpecStartup == InitStartup /\ [][NextStartup]_vars

(* ------------------------------------------------------------------ *)
(* Vocabulary of the properties                                        *)
(* ------------------------------------------------------------------ *)

\* a create-message request
IsSend(e) == e.method = "post" /\ Len(e.path) = 3 /\ e.path[3] = "/messages"

\* a pin request
IsPin(e) == e.method = "put" /\ Len(e.path) = 4 /\ e.path[3] = "/pins/"

\* a role-create request
IsRoleCreate(e) == e.method = "post" /\ e.path = GuildRolesPath

\* a category-create or channel-create request
IsChannelCreate(e) == e.method = "post" /\ e.path = GuildChannelsPath

\* the request that enumerates the server's channels
IsEnumerate(e) == e.method = "get" /\ e.path = GuildChannelsPath

\* some message body of the pin catalog contains the placeholder token
PlaceholderAnywhere ==
  \E k \in DOMAIN catalog.PINNED_MESSAGES :
    \E m \in DOMAIN catalog.PINNED_MESSAGES[k].messages :
      HasPlaceholder(catalog.PINNED_MESSAGES[k].messages[m])

\* the calls of the log that satisfy Test
Calls(Test(_)) == {k \in DOMAIN log : Test(log[k])}

\* how many elements of sequence s satisfy Test
Count(s, Test(_)) == Cardinality({k \in DOMAIN s : Test(s[k])})

(* ------------------------------------------------------------------ *)
(* C1                                                                  *)
(* ------------------------------------------------------------------ *)

\* C1: full engine placeholder guard. When any message body of the pin
\* catalog contains URL_PLACEHOLDER, no create-message call and no pin call
\* is ever made in the run, for any channel.
C1_PlaceholderGuard ==
  PlaceholderAnywhere => Calls(IsSend) = {} /\ Calls(IsPin) = {}

\* C1 witness: a live run whose catalog holds the placeholder in one
\* message among clean ones has created its channels and has ended in the
\* scan of the pin stage.
C1_Witness ==
  /\ PlaceholderAnywhere
  /\ ~dry_run
  /\ pc = "exit"
  /\ exit_code = 1
  /\ MissingRoles(role_ids) = <<>>
  /\ DOMAIN channel_ids # {}

(* ------------------------------------------------------------------ *)
(* C2                                                                  *)
(* ------------------------------------------------------------------ *)

\* C2 as claimed: when the catalog contains the placeholder, the run
\* aborts before any request is issued to the remote server.
C2_NoRequestAtAll ==
  PlaceholderAnywhere => \A k \in DOMAIN log : ~log[k].wire

\* the stages 1 to 4 have issued their requests: the enumeration first,
\* one role-create per catalog role, one category-create per category
EarlierStagesRan ==
  /\ log # <<>>
  /\ IsEnumerate(log[1])
  /\ Cardinality(Calls(IsRoleCreate)) = Len(catalog.ROLES)
  /\ Cardinality(Calls(IsChannelCreate)) >= Len(catalog.SERVER_STRUCTURE)

\* C2 amended: the placeholder check is the first thing the pin stage
\* does. With the placeholder in the catalog the run never gets into the
\* pin loop and never ends with code 0, and when a live run passes the
\* required-roles check it ends with code 1 only after the earlier stages
\* (enumeration, role creation, category and channel creation) have issued
\* their requests.
C2_GuardAtPinStage ==
  PlaceholderAnywhere =>
    /\ pc \notin {"pin_messages", "pin_channel", "pin_message"}
    /\ pc = "exit" => exit_code = 1
    /\ (pc = "exit" /\ MissingRoles(role_ids) = <<>>) => EarlierStagesRan
    /\ (pc = "exit" /\ MissingRoles(role_ids) = <<>> /\ ~dry_run) =>
          \E k \in DOMAIN log : log[k].wire

\* C2 witness: a live run with the placeholder in its catalog has ended
\* with code 1 after real requests of the channel stage went out.
C2_Witness ==
  /\ PlaceholderAnywhere
  /\ ~dry_run
  /\ pc = "exit"
  /\ exit_code = 1
  /\ \E k \in Calls(IsChannelCreate) : log[k].wire /\ log[k].outcome = "ok"

(* ------------------------------------------------------------------ *)
(* C3                                                                  *)
(* ------------------------------------------------------------------ *)

\* the run is past the Create Roles stage and its validation
PastValidation ==
  pc \notin {"delete_default_channels", "delete_loop", "create_roles",
             "validate_required_roles"}

\* one of the six load-bearing roles has no recorded identifier
RequiredRoleMissing ==
  \E r \in {"Founder", "Core Team", "Moderator", "Contributor", "Member",
             "Unverified"} : r \notin DOMAIN role_ids

\* C3: full engine, live mode. When a required role has no recorded
\* identifier after the Create Roles stage, the run is aborted (code 1) and
\* no category-create, channel-create, create-message or pin call is made.
C3_RequiredRolesAbort ==
  (~dry_run /\ PastValidation /\ RequiredRoleMissing) =>
    /\ pc = "exit"
    /\ exit_code = 1
    /\ Calls(IsChannelCreate) = {}
    /\ Calls(IsSend) = {}
    /\ Calls(IsPin) = {}

\* C3 witness: a live run in which the create request of Member failed,
\* while other roles were created, has been aborted.
C3_Witness ==
  /\ ~dry_run
  /\ pc = "exit"
  /\ "Member" \notin DOMAIN role_ids
  /\ "Founder" \in DOMAIN role_ids

(* ------------------------------------------------------------------ *)
(* C4                                                                  *)
(* ------------------------------------------------------------------ *)

\* C4 as claimed: when the request that enumerates the existing channels
\* fails, the run aborts and no role-create or channel-create call is made.
C4_EnumerateFailureAborts ==
  (log # <<>> /\ IsEnumerate(log[1]) /\ log[1].outcome = "fail") =>
    Calls(IsRoleCreate) = {} /\ Calls(IsChannelCreate) = {}

(* ------------------------------------------------------------------ *)
(* C5                                                                  *)
(* ------------------------------------------------------------------ *)

\* the names of the catalog's categories
CategoryNames ==
  {catalog.SERVER_STRUCTURE[k].category : k \in DOMAIN catalog.SERVER_STRUCTURE}

\* the names of the catalog's channels
ChannelNames ==
  UNION {{catalog.SERVER_STRUCTURE[k].channels[j].name :
            j \in DOMAIN catalog.SERVER_STRUCTURE[k].channels} :
         k \in DOMAIN catalog.SERVER_STRUCTURE}

\* the names of the catalog's roles
RoleNames == {catalog.ROLES[k].name : k \in DOMAIN catalog.ROLES}

\* how many live channels (of any kind) carry the name
LiveChannels(name) == Count(guild.channels, LAMBDA c : c.name = name)

\* how many live roles carry the name
LiveRoles(name) == Count(guild.roles, LAMBDA r : r.name = name)

\* a run has completed
Completed == pc = "exit" /\ exit_code = 0

\* C5 as claimed: after the second of two runs in sequence every catalog
\* role name, category name and channel name exists exactly once.
C5_ExactlyOnceAfterRerun ==
  (Completed /\ run_no = 2) =>
    /\ \A n \in CategoryNames \cup ChannelNames : LiveChannels(n) = 1
    /\ \A n \in RoleNames : LiveRoles(n) = 1

\* C5 amended: re-running leaves the same channel topology (after every
\* completed run each catalog category and channel name exists exactly once
\* and nothing else does), but roles are not reconciled: each run creates
\* every catalog role again, so after the k-th run each catalog role name
\* exists k times.
C5_ChannelsOnceRolesPerRun ==
  Completed =>
    /\ \A n \in CategoryNames \cup ChannelNames : LiveChannels(n) = 1
    /\ Len(guild.channels) = Cardinality(CategoryNames \cup ChannelNames)
    /\ \A n \in RoleNames : LiveRoles(n) = run_no

\* C5 witness: the second run in sequence has completed on a server that
\* had channels before the first.
C5_Witness ==
  /\ Completed
  /\ run_no = 2
  /\ \E k \in DOMAIN log : log[k].method = "delete" /\ log[k].run = 1

(* ------------------------------------------------------------------ *)
(* Vocabulary of the incremental variant's properties                  *)
(* ------------------------------------------------------------------ *)

\* the four names of NEW_CHANNELS
NewNames == {NEW_CHANNELS[k].name : k \in DOMAIN NEW_CHANNELS}

\* the calls of invocation r that satisfy Test
CallsOf(r, Test(_)) == {k \in DOMAIN log : log[k].run = r /\ Test(log[k])}

\* a successful create request for the name was made before invocation r
CreatedBefore(name, r) ==
  \E j \in DOMAIN log :
    /\ IsChannelCreate(log[j]) /\ log[j].outcome = "ok"
    /\ log[j].run < r /\ log[j].json.name = name

\* a channel of that name was on the server when invocation r started
ExistedAtStart(name, r) ==
  \/ \E k \in DOMAIN guild0.channels : guild0.channels[k].name = name
  \/ CreatedBefore(name, r)

\* the channel had a pinned message when invocation r started: one of the
\* initial server, or one pinned by an earlier invocation
HadPinsAtStart(ch_id, r) ==
  \/ \E k \in DOMAIN guild0.messages :
       /\ guild0.messages[k].channel_id = ch_id
       /\ guild0.messages[k].id \in guild0.pins
  \/ \E j \in DOMAIN log :
       /\ IsPin(log[j]) /\ log[j].outcome = "ok"
       /\ log[j].run < r /\ log[j].path[2] = ch_id

\* the spellings of BOTS on the modelled servers
BotsSpellings == {"BOTS", "Bots", "bots", "bOtS"}

\* the positions of the live categories whose name is BOTS in any case
BotsCategories ==
  {k \in DOMAIN guild.channels :
     /\ guild.channels[k].type = CH_CATEGORY
     /\ guild.channels[k].name \in BotsSpellings}

\* the current invocation is live and got past the role fetch
IncPastRoles ==
  \/ pc \in {"inc_create", "inc_pin", "inc_pin_channel", "inc_pin_message"}
  \/ pc = "exit" /\ overwrites # <<>>

\* the current invocation is live and got past the create step
IncPastCreate ==
  \/ pc \in {"inc_pin", "inc_pin_channel", "inc_pin_message"}
  \/ pc = "exit" /\ overwrites # <<>>

(* ------------------------------------------------------------------ *)
(* C6                                                                  *)
(* ------------------------------------------------------------------ *)

\* C6: incremental variant, channels. Over invocations in sequence no
\* create request is ever issued for a name that was on the server when
\* the invocation started, so no name of NEW_CHANNELS is created twice and
\* each of the four names exists at most once more than before the first
\* invocation.
C6_NoDuplicateChannels ==
  /\ \A k \in Calls(IsChannelCreate) :
       ~ExistedAtStart(log[k].json.name, log[k].run)
  /\ \A n \in NewNames :
       /\ Cardinality({k \in Calls(IsChannelCreate) :
                         log[k].json.name = n /\ log[k].outcome = "ok"}) <= 1
       /\ LiveChannels(n)
            <= Count(guild0.channels, LAMBDA c : c.name = n) + 1

\* C6 witness: the second invocation has completed after the first one
\* created all four channels, and it issued no create request.
C6_Witness ==
  /\ Completed /\ ~dry_run /\ run_no = 2
  /\ \A n \in NewNames : CreatedBefore(n, 2)
  /\ CallsOf(2, IsChannelCreate) = {}
  /\ IncPastCreate

(* ------------------------------------------------------------------ *)
(* C7                                                                  *)
(* ------------------------------------------------------------------ *)

\* C7: incremental variant, pins. A channel that already has a pinned
\* message when its pin step starts receives no create-message and no pin
\* request in that invocation, and no catalog message ends up pinned twice
\* in the same channel.
C7_NeverDoublePins ==
  /\ \A k \in Calls(IsSend) \cup Calls(IsPin) :
       ~HadPinsAtStart(log[k].path[2], log[k].run)
  /\ \A i, j \in DOMAIN guild.messages :
       ( /\ i # j
         /\ guild.messages[i].id \in guild.pins
         /\ guild.messages[j].id \in guild.pins
         /\ guild.messages[i].channel_id = guild.messages[j].channel_id )
       => guild.messages[i].content # guild.messages[j].content

(* ------------------------------------------------------------------ *)
(* C8                                                                  *)
(* ------------------------------------------------------------------ *)

\* the read_only overwrites for the server's roles, written out: view and
\* read history allowed, send denied, for @everyone and, when the server
\* has such a role, for Unverified
ExpectedOverwrites ==
  LET ow(id) == [id |-> id, type |-> 0, allow |-> {10, 16}, deny |-> {11}]
      unv == {k \in DOMAIN guild.roles : guild.roles[k].name = "Unverified"}
  IN <<ow(GUILD_ID)>>
       \o (IF unv = {} THEN <<>>
           ELSE <<ow(guild.roles[CHOOSE k \in unv : TRUE].id)>>)

\* C8: incremental variant, one channel definition. A name that exists on
\* the server gets no create request and the id of the existing channel of
\* that name is handed to the pin step; every other name gets exactly one
\* create request, with the located category as parent and the read_only
\* overwrites.
C8_SkipExistingCreateOthers ==
  /\ \A k \in Calls(IsChannelCreate) :
       /\ ~ExistedAtStart(log[k].json.name, log[k].run)
       /\ \E c \in BotsCategories :
            /\ Get(log[k].json, "parent_id", "") = guild.channels[c].id
            /\ \A d \in BotsCategories : d <= c
       /\ log[k].json.permission_overwrites = ExpectedOverwrites
       /\ log[k].json.type = 0
  /\ IncPastCreate =>
       \A n \in NewNames :
         IF ExistedAtStart(n, run_no)
         THEN /\ CallsOf(run_no, LAMBDA e : IsChannelCreate(e)
                                           /\ e.json.name = n) = {}
              /\ n \in DOMAIN created_channels
              /\ \E k \in DOMAIN guild.channels :
                   /\ guild.channels[k].name = n
                   /\ guild.channels[k].id = created_channels[n]
                   /\ \A j \in 1..(k - 1) : guild.channels[j].name # n
         ELSE Cardinality(CallsOf(run_no, LAMBDA e : IsChannelCreate(e)
                                                   /\ e.json.name = n)) = 1

\* C8 witness: on the server where only price-ticker exists, the create
\* step is over: crypto-news, regulatory-watch and whale-alerts were
\* created and price-ticker's existing id is in hand for the pin step.
C8_Witness ==
  /\ IncPastCreate /\ run_no = 1
  /\ guild0 = HandEditedGuild
  /\ {log[k].json.name : k \in Calls(IsChannelCreate)}
       = {"crypto-news", "regulatory-watch", "whale-alerts"}
  /\ \A k \in Calls(IsChannelCreate) : log[k].outcome = "ok"
  /\ created_channels["price-ticker"] = "2"
  /\ DOMAIN created_channels = NewNames

(* ------------------------------------------------------------------ *)
(* C9                                                                  *)
(* ------------------------------------------------------------------ *)

\* the send requests of the current invocation for that body in that channel
SendsOf(ch_id, msg) ==
  CallsOf(run_no, LAMBDA e : /\ IsSend(e)
                             /\ e.path[2] = ch_id
                             /\ e.json.content = msg)

\* C9: incremental variant, placeholder policy. No message body with the
\* placeholder is ever sent. An invocation that got past the role fetch
\* ends with code 0, and by then every placeholder-free message of every
\* resolved channel that had no pins has had its send request, followed by
\* its pin request when the send succeeded, whatever placeholders there
\* are elsewhere.
C9_PlaceholderSkipsOneMessage ==
  /\ \A k \in Calls(IsSend) : ~HasPlaceholder(log[k].json.content)
  /\ (pc = "exit" /\ overwrites # <<>>) =>
       /\ exit_code = 0
       /\ \A n \in DOMAIN created_channels :
            LET ch_id == created_channels[n]
                messages == PinnedGet(catalog.PINNED_MESSAGES, n)
            IN ~HadPinsAtStart(ch_id, run_no) =>
                 \A m \in DOMAIN messages :
                   IF HasPlaceholder(messages[m])
                   THEN SendsOf(ch_id, messages[m]) = {}
                   ELSE /\ Cardinality(SendsOf(ch_id, messages[m])) = 1
                        /\ \A k \in SendsOf(ch_id, messages[m]) :
                             log[k].outcome = "ok" =>
                               /\ k < Len(log)
                               /\ IsPin(log[k + 1])
                               /\ log[k + 1].path[2] = ch_id

\* C9 witness: an invocation has ended on a catalog whose first feed
\* channel has the placeholder in its first message; the second message of
\* that channel and the messages of the other channel were sent and are
\* pinned.
C9_Witness ==
  /\ pc = "exit" /\ exit_code = 0 /\ overwrites # <<>> /\ run_no = 1
  /\ guild0 = ProvisionedGuild
  /\ catalog.PINNED_MESSAGES = FeedPinned(<<1, 1>>)
  /\ Cardinality({k \in DOMAIN guild.messages :
                    guild.messages[k].id \in guild.pins})
       = 2 * MaxMsgs - 1

(* ------------------------------------------------------------------ *)
(* C10                                                                 *)
(* ------------------------------------------------------------------ *)

\* invocation r made a create, send or pin request
Provisioned(r) ==
  CallsOf(r, LAMBDA e : IsChannelCreate(e) \/ IsSend(e) \/ IsPin(e)) # {}

\* invocation r could not fetch a usable channel list
EnumerateFailed(r) ==
  \E k \in CallsOf(r, IsEnumerate) : log[k].outcome = "fail"

\* the current invocation ended with code 1 right after the channel fetch
AbortedAtStepOne ==
  /\ pc = "exit" /\ exit_code = 1
  /\ Cardinality(CallsOf(run_no, LAMBDA e : TRUE)) = 1

\* C10: incremental variant, target category. When no live channel of kind
\* category has the name BOTS in some case, or the channel list cannot be
\* fetched, the invocation ends with code 1 right after the fetch and makes
\* no create, send or pin request; otherwise the category is located
\* whatever the case of its name and the invocation goes on.
C10_LocateBotsOrAbort ==
  /\ \A r \in 1..run_no :
       (BotsCategories = {} \/ EnumerateFailed(r)) => ~Provisioned(r)
  /\ (~dry_run /\ pc # "inc_main"
        /\ (BotsCategories = {} \/ EnumerateFailed(run_no)))
       => AbortedAtStepOne
  /\ (AbortedAtStepOne /\ ~EnumerateFailed(run_no)) => BotsCategories = {}
  /\ IncPastRoles =>
       \E c \in BotsCategories : bots_category_id = guild.channels[c].id

\* C10 witness: the invocation fetched the channel list of the server that
\* has a text channel named bots and a category named Robots only, and
\* ended with code 1.
C10_Witness ==
  /\ AbortedAtStepOne
  /\ guild0 = NoCategoryGuild
  /\ log[Len(log)].outcome = "ok"

(* ------------------------------------------------------------------ *)
(* Vocabulary of the transport's properties                            *)
(* ------------------------------------------------------------------ *)

\* the call has returned after making HTTP requests
Returned == pc = "returned" /\ wire # <<>>

\* the last response the call received
LastAnswer == answers[Len(answers)]

\* the retry-after interval a 429 body gives, -1 when it gives none
GivenInterval(body) ==
  CASE body = "{retry_after: 0}" -> 0
    [] body = "{retry_after: 2}" -> 2
    [] OTHER -> -1

\* the value a success body decodes to
Decoded(body) ==
  CASE body = "{id: 41}" -> [kind |-> "dict", val |-> [id |-> "41"]]
    [] body = "[{id: 41}]" -> [kind |-> "list", val |-> <<[id |-> "41"]>>]
    [] body = "{}" -> [kind |-> "dict", val |-> <<>>]
    [] body = "[]" -> [kind |-> "list", val |-> <<>>]

\* what a call is to return on a response that is not a 429, by status
Classified(impl, status, body) ==
  IF status = 200 \/ (status = 201 /\ impl = "_request")
  THEN Decoded(body)
  ELSE IF status = 204 /\ impl = "_request"
  THEN [kind |-> "dict", val |-> <<>>]
  ELSE [kind |-> "none"]

(* ------------------------------------------------------------------ *)
(* C11                                                                 *)
(* ------------------------------------------------------------------ *)

\* C11: rate-limit absorption. The request that follows a 429 response
\* leaves no sooner than the retry-after interval of that response after
\* it was received, and a call whose 429 responses are followed by a
\* success response returns the payload of the success response.
C11_RateLimitAbsorbed ==
  /\ \A k \in DOMAIN answers :
       (answers[k].status = 429 /\ k < Len(wire)) =>
         wire[k + 1].at - answers[k].at >= GivenInterval(answers[k].body)
  /\ ( /\ Returned
       /\ Len(answers) >= 2
       /\ answers[Len(answers) - 1].status = 429
       /\ LastAnswer.status = 200 )
     => ret = Decoded(LastAnswer.body)

\* C11 witness: a call got a 429 with a retry-after of 2, then a 200, and
\* has returned the payload of the 200.
C11_Witness ==
  /\ Returned
  /\ Len(answers) = 2
  /\ answers[1].status = 429 /\ answers[1].body = "{retry_after: 2}"
  /\ answers[2].status = 200 /\ answers[2].body = "{id: 41}"
  /\ ret = [kind |-> "dict", val |-> [id |-> "41"]]
  /\ wire[2].at >= 2

(* ------------------------------------------------------------------ *)
(* C12                                                                 *)
(* ------------------------------------------------------------------ *)

\* C12: rate limiting is never surfaced. Every request a call issues has
\* the method, path and body of the call; there is one request per
\* response received and one more after each 429; the call returns on a
\* response that is not a 429 only, after nothing but 429 responses, and
\* what it returns depends on that response alone.
C12_RateLimitNeverSurfaced ==
  /\ \A k \in DOMAIN wire :
       /\ wire[k].method = call.method
       /\ wire[k].path = call.path
       /\ wire[k].json = call.json
  /\ Len(answers) <= Len(wire) /\ Len(wire) <= Len(answers) + 1
  /\ \A k \in DOMAIN answers :
       (k < Len(answers) \/ pc = "request") => answers[k].status = 429
  /\ Returned =>
       /\ LastAnswer.status # 429
       /\ Len(wire) = Len(answers)
       /\ ret = Classified(call.impl, LastAnswer.status, LastAnswer.body)

\* C12 witness: a call with a body has returned after as many 429
\* responses as the remote service gives in a row.
C12_Witness ==
  /\ Returned
  /\ call.method = "post"
  /\ Retries = MaxRetries
  /\ Len(wire) = MaxRetries + 1
  /\ ret = [kind |-> "dict", val |-> [id |-> "41"]]

(* ------------------------------------------------------------------ *)
(* C13                                                                 *)
(* ------------------------------------------------------------------ *)

\* C13: status classification of DiscordClient. A completed request
\* returns the decoded payload on 200 and 201, an empty object on 204 and
\* the failure value on every other status that is not 429; nothing else
\* is ever returned.
C13_StatusClassification ==
  (Returned /\ call.impl = "_request") =>
    /\ LastAnswer.status \in {200, 201} => ret = Decoded(LastAnswer.body)
    /\ LastAnswer.status = 204 => ret = [kind |-> "dict", val |-> <<>>]
    /\ LastAnswer.status \notin {200, 201, 204} => ret = [kind |-> "none"]
    /\ LastAnswer.status # 429

\* C13 witness: a delete request was answered 204 and the call returned
\* the empty object.
C13_Witness ==
  /\ Returned
  /\ call.impl = "_request" /\ call.method = "delete"
  /\ LastAnswer.status = 204
  /\ ret = [kind |-> "dict", val |-> <<>>]

(* ------------------------------------------------------------------ *)
(* C14                                                                 *)
(* ------------------------------------------------------------------ *)

\* the statuses that are neither 2xx nor 429
FailureStatuses == {s \in Statuses : s \notin 200..299 /\ s # 429}

\* C14: transport secrecy. On a response whose status is neither 2xx nor
\* 429, DiscordClient returns the failure value and prints one line made
\* of the status, the method and the path; with any other body in the same
\* response it would have returned and printed the same.
C14_BodyNeverExposed ==
  (Returned /\ call.impl = "_request" /\ LastAnswer.status \in FailureStatuses)
  =>
    /\ ret = [kind |-> "none"]
    /\ stdout # <<>>
    /\ stdout[Len(stdout)] =
         [kind |-> "HTTP", status |-> LastAnswer.status,
          method |-> MethodUpper(call.method), path |-> call.path]
    /\ \A b \in ErrorBodies :
         Completion(call, [status |-> LastAnswer.status, body |-> b])
           = [ret |-> ret, printed |-> <<stdout[Len(stdout)]>>]

\* C14 witness: a request was answered 401 with a body that echoes a
\* credential, and the call has returned.
C14_Witness ==
  /\ Returned
  /\ call.impl = "_request"
  /\ LastAnswer.status = 401
  /\ LastAnswer.body = "{message: bad token abc.def}"
  /\ ret = [kind |-> "none"]

(* ------------------------------------------------------------------ *)
(* C15                                                                 *)
(* ------------------------------------------------------------------ *)

\* C15: simulate mode. With dry_run set, every call either script makes
\* is answered by the synthetic payload and none reaches the network: the
\* remote server stays as it was and every identifier the run has recorded
\* is the sentinel.
C15_SimulateMode ==
  dry_run =>
    /\ \A k \in DOMAIN log : log[k].outcome = "dry" /\ ~log[k].wire
    /\ guild = guild0
    /\ \A n \in DOMAIN role_ids : role_ids[n] = "DRY_RUN_ID"
    /\ \A n \in DOMAIN channel_ids : channel_ids[n] = "DRY_RUN_ID"
    /\ cat_id \in {"", "DRY_RUN_ID"}
    /\ \A n \in DOMAIN created_channels : created_channels[n] = "DRY_RUN_ID"

\* C15 witness: a simulated run of the full engine has gone through all
\* its stages, with a role map and a channel map full of sentinels.
C15_Witness ==
  /\ dry_run
  /\ Completed
  /\ DOMAIN role_ids = RoleNames
  /\ ChannelNames \subseteq DOMAIN channel_ids
  /\ Len(log) >= Cardinality(RoleNames) + Cardinality(ChannelNames)

(* ------------------------------------------------------------------ *)
(* C16                                                                 *)
(* ------------------------------------------------------------------ *)

\* C16: permission compiler, missing roles. For each template and each
\* role map, the compiled list is the list compiled from the full role map
\* without the records whose target is a role missing from the map, in the
\* same order, and no compiled record has an empty target.
C16_MissingRolesOmitted ==
  pc = "compiled" =>
    /\ \A k \in DOMAIN compiled : compiled[k].id # ""
    /\ compiled =
         SelectSeq(_build_overwrites(template_arg, GUILD_ID, FullRoleMap),
                   LAMBDA ow : \A n \in TemplateRoles \ DOMAIN role_ids :
                                 ow.id # RoleIdOf(n))

\* C16 witness: governance compiled from a role map in which Member alone
\* is missing: three records, none for Member.
C16_Witness ==
  /\ pc = "compiled"
  /\ template_arg = "governance"
  /\ DOMAIN role_ids = TemplateRoles \ {"Member"}
  /\ Len(compiled) = 3
  /\ \A k \in DOMAIN compiled : compiled[k].id # "105"

(* ------------------------------------------------------------------ *)
(* C17                                                                 *)
(* ------------------------------------------------------------------ *)

\* an overwrite record, written out with the bit positions of its masks:
\* 10 view, 11 send, 16 read history
Rec(id, allow, deny) == [id |-> id, type |-> 0, allow |-> allow, deny |-> deny]

\* the lists the four templates stand for when every role is resolved
TemplateMeaning(t) ==
  CASE t = "read_only" ->
         << Rec(GUILD_ID, {10, 16}, {11}), Rec("106", {10, 16}, {11}) >>
    [] t = "community" ->
         << Rec(GUILD_ID, {}, {11}), Rec("106", {}, {10, 11}),
            Rec("105", {10, 11, 16}, {}) >>
    [] t = "governance" ->
         << Rec(GUILD_ID, {}, {11}), Rec("106", {}, {10, 11}),
            Rec("105", {10, 16}, {11}), Rec("104", {10, 11, 16}, {}) >>
    [] t = "team_only" ->
         << Rec(GUILD_ID, {}, {10}), Rec("101", {10, 11, 16}, {}),
            Rec("102", {10, 11, 16}, {}), Rec("103", {10, 11, 16}, {}) >>

\* C17: permission compiler, template semantics. With all roles resolved
\* each template compiles to exactly its list: governance denies send to
\* the public role, view and send to Unverified, lets Member view and read
\* history but not send, lets Contributor view, send and read history; and
\* so on for team_only, community and read_only. No other record is
\* produced.
C17_TemplateSemantics ==
  (pc = "compiled" /\ role_ids = FullRoleMap) =>
    compiled = TemplateMeaning(template_arg)

\* C17 witness: governance compiled with all roles resolved.
C17_Witness ==
  /\ pc = "compiled"
  /\ role_ids = FullRoleMap
  /\ template_arg = "governance"
  /\ Len(compiled) = 4

(* ------------------------------------------------------------------ *)
(* C18                                                                 *)
(* ------------------------------------------------------------------ *)

\* the bulk re-order requests of the log
IsReorder(e) == e.method = "patch" /\ e.path = GuildRolesPath

\* C18: role re-ordering. A live run makes at most one bulk re-order
\* request; it names exactly the roles that were created, and the role at
\* place i of the n catalog roles (counted from 0) gets position n - i: the
\* first catalog role the highest position n, the last one position 1, no
\* two roles the same position, whichever roles failed to be created.
C18_RolePositions ==
  /\ Cardinality(Calls(IsReorder)) <= 1
  /\ \A k \in Calls(IsReorder) :
       LET positions == log[k].json
           n == Len(catalog.ROLES)
       IN /\ Len(positions) = Len(guild.roles)
          /\ \A j \in DOMAIN positions :
               \E i \in 0..(n - 1) :
                 /\ positions[j].position = n - i
                 /\ \E r \in DOMAIN guild.roles :
                      /\ guild.roles[r].id = positions[j].id
                      /\ guild.roles[r].name = catalog.ROLES[i + 1].name
          /\ \A j \in DOMAIN positions :
               /\ positions[j].position \in 1..n
               /\ positions[j].id = Get(role_ids, catalog.ROLES[1].name, "")
                    => positions[j].position = n
               /\ positions[j].id = Get(role_ids, catalog.ROLES[n].name, "")
                    => positions[j].position = 1
          /\ \A j1, j2 \in DOMAIN positions :
               j1 < j2 => positions[j1].position > positions[j2].position

\* C18 witness: a live run has made its re-order request after one role
\* creation failed; the first and the last catalog role are in it.
C18_Witness ==
  \E k \in Calls(IsReorder) :
    /\ Len(log[k].json) = Len(catalog.ROLES) - 1
    /\ \E j \in DOMAIN log[k].json :
         log[k].json[j].position = Len(catalog.ROLES)
    /\ \E j \in DOMAIN log[k].json : log[k].json[j].position = 1

(* ------------------------------------------------------------------ *)
(* C19                                                                 *)
(* ------------------------------------------------------------------ *)

\* the create requests for the category BOTS
BotsCreates ==
  {k \in Calls(IsChannelCreate) :
     log[k].json.type = 4 /\ log[k].json.name = "BOTS"}

\* the channel-create requests made for category request k: those after it
\* and before the next category request
MembersOf(k) ==
  {j \in Calls(IsChannelCreate) :
     /\ j > k
     /\ log[j].json.type # 4
     /\ \A i \in (k + 1)..(j - 1) :
          IsChannelCreate(log[i]) => log[i].json.type # 4}

\* a read_only-shaped list: the public role, then Unverified when it is
\* resolved, both allowed view and history and denied send
ReadOnlyShaped(ows) ==
  /\ Len(ows) \in {1, 2}
  /\ ows[1] = Rec(GUILD_ID, {10, 16}, {11})
  /\ Len(ows) = 2 =>
       ows[2] = Rec(Get(role_ids, "Unverified", ""), {10, 16}, {11})

\* a community-shaped list: the public role denied send, then Unverified
\* denied view and send, then Member allowed view, send and history, for
\* those of the two that are resolved
CommunityShaped(ows) ==
  /\ Len(ows) \in {1, 2, 3}
  /\ ows[1] = Rec(GUILD_ID, {}, {11})
  /\ \A k \in 2..Len(ows) :
       \/ ows[k] = Rec(Get(role_ids, "Unverified", ""), {}, {10, 11})
       \/ ows[k] = Rec(Get(role_ids, "Member", ""), {10, 11, 16}, {})

\* the source catalog's run is past its create stage
FreshServerDone ==
  /\ catalog.SERVER_STRUCTURE = SERVER_STRUCTURE
  /\ cat_idx > Len(SERVER_STRUCTURE)
  /\ pc \in {"pin_messages", "pin_channel", "pin_message", "exit"}

\* C19 as claimed: the run creates one category BOTS with 7 channels, each
\* of the 7 with a read_only-shaped overwrite list.
C19_BotsAllReadOnly ==
  FreshServerDone =>
    /\ Cardinality(BotsCreates) = 1
    /\ \A k \in BotsCreates :
         /\ Cardinality(MembersOf(k)) = 7
         /\ \A j \in MembersOf(k) :
              ReadOnlyShaped(log[j].json.permission_overwrites)

\* C19 amended: the run creates one category BOTS with 7 channels. The six
\* feed channels (github-feed, twitter-feed, crypto-news, price-ticker,
\* regulatory-watch, whale-alerts) carry a read_only-shaped list, of
\* length 2 as Unverified is always resolved by then; bot-commands carries
\* a community-shaped list.
C19_BotsSixReadOnlyOneCommunity ==
  FreshServerDone =>
    /\ Cardinality(BotsCreates) = 1
    /\ \A k \in BotsCreates :
         /\ {log[j].json.name : j \in MembersOf(k)}
              = {"bot-commands", "github-feed", "twitter-feed", "crypto-news",
                 "price-ticker", "regulatory-watch", "whale-alerts"}
         /\ Cardinality(MembersOf(k)) = 7
         /\ \A j \in MembersOf(k) :
              LET ows == log[j].json.permission_overwrites
              IN /\ log[j].json.parent_id = cat_id
                 /\ IF log[j].json.name = "bot-commands"
                    THEN CommunityShaped(ows) /\ Len(ows) = 3
                    ELSE ReadOnlyShaped(ows) /\ Len(ows) = 2

\* C19 witness: a live run of the source catalog on a server without
\* channels is past its create stage, and the server has the category
\* BOTS with seven channels under it.
C19_Witness ==
  /\ FreshServerDone
  /\ ~dry_run
  /\ guild0 = EmptyGuild
  /\ \E c \in DOMAIN guild.channels :
       /\ guild.channels[c].name = "BOTS"
       /\ guild.channels[c].type = 4
       /\ Cardinality({d \in DOMAIN guild.channels :
                         guild.channels[d].parent_id = guild.channels[c].id})
            = 7

(* ------------------------------------------------------------------ *)
(* C20                                                                 *)
(* ------------------------------------------------------------------ *)

\* sequence s starts with sequence t
StartsWith(s, t) == Len(t) <= Len(s) /\ SubSeq(s, 1, Len(t)) = t

\* C20: incremental variant, frame. The variant makes no delete and no
\* patch request: its only writes are channel creations, message creations
\* and pins. Every channel, role, message and pin the server had before
\* the first invocation is still there, unchanged.
C20_IncrementalFrame ==
  /\ \A k \in DOMAIN log :
       /\ log[k].method \in {"get", "post", "put"}
       /\ log[k].method = "post" =>
            (IsChannelCreate(log[k]) \/ IsSend(log[k]))
       /\ log[k].method = "put" => IsPin(log[k])
  /\ StartsWith(guild.channels, guild0.channels)
  /\ guild.roles = guild0.roles
  /\ StartsWith(guild.messages, guild0.messages)
  /\ guild0.pins \subseteq guild.pins

\* C20 witness: a live invocation has ended on the server that had
\* channels of the feed names, a message and a pin before; it created
\* channels and pinned messages.
C20_Witness ==
  /\ Completed /\ ~dry_run
  /\ guild0 = HandEditedGuild
  /\ Len(guild.channels) > Len(guild0.channels)
  /\ guild.pins # guild0.pins

(* ------------------------------------------------------------------ *)
(* Vocabulary of the bridge's properties                                *)
(* ------------------------------------------------------------------ *)

\* the telegram_send calls of a channel that Telegram accepted
Delivered(ch_name) ==
  {k \in DOMAIN relay : relay[k].channel = ch_name /\ relay[k].outcome = "ok"}

\* the telegram_send calls for one message that Telegram accepted
Deliveries(ch_name, m_id) == {k \in Delivered(ch_name) : relay[k].id = m_id}

\* a poll of a live bridge has come to its end and saved its state
PollSaved == pc = "polled" /\ ~dry_run /\ channel_ids # EmptyDict

(* ------------------------------------------------------------------ *)
(* C21                                                                 *)
(* ------------------------------------------------------------------ *)

\* C21: bridge checkpoint. At the end of every poll of a live bridge the
\* persisted checkpoint of each bridged channel is the identifier of the
\* last message of that channel that Telegram accepted, never that of a
\* message whose forward failed or was not attempted.
C21_CheckpointIsLastForwarded ==
  PollSaved =>
    \A ch_name \in DOMAIN state_file :
      /\ Delivered(ch_name) # {}
      /\ LET last == CHOOSE k \in Delivered(ch_name) :
                       \A j \in Delivered(ch_name) : j <= k
         IN state_file[ch_name] = relay[last].id

(* ------------------------------------------------------------------ *)
(* C22                                                                 *)
(* ------------------------------------------------------------------ *)

\* C22: bridge re-run safety. Across any sequence of polls of a live bridge
\* each Discord message is forwarded to Telegram at most once.
C22_ForwardedAtMostOnce ==
  ~dry_run =>
    \A k \in DOMAIN relay :
      Cardinality(Deliveries(relay[k].channel, relay[k].id)) <= 1

\* the same of the polls that no exception has cut short: the property the
\* checkpoint does give
C22_AtMostOnceUnlessCutShort ==
  (/\ ~dry_run
   /\ \A k \in DOMAIN relay : relay[k].outcome # "raise"
   /\ \A k \in DOMAIN log : log[k].outcome # "raise") =>
    \A k \in DOMAIN relay :
      Cardinality(Deliveries(relay[k].channel, relay[k].id)) <= 1

(* ------------------------------------------------------------------ *)
(* C23                                                                 *)
(* ------------------------------------------------------------------ *)

\* s ends with t
EndsWith(s, t) ==
  Len(t) <= Len(s) /\ SubSeq(s, Len(s) - Len(t) + 1, Len(s)) = t

\* the formatted text without its header and without the marker
Kept(header) ==
  SubSeq(formatted, Len(header) + 1, Len(formatted) - Len(TRUNCATED))

\* C23: bridge truncation. For every message content and channel name the
\* formatted text, header plus body, has at most 4096 code points; a body
\* (the content with its markdown headings converted) that exceeds the
\* space the header leaves is cut to a proper prefix of itself and followed
\* by the truncation marker, any other body follows the header unshortened.
C23_Truncation ==
  pc = "formatted" =>
    LET header == Header(fmt_channel)
        body == ReplaceHeadings(fmt_content)
        room == TELEGRAM_LIMIT - Len(header)
    IN /\ Len(formatted) <= TELEGRAM_LIMIT
       /\ StartsWith(formatted, header)
       /\ IF Len(body) > room
          THEN /\ EndsWith(formatted, TRUNCATED)
               /\ Len(Kept(header)) < Len(body)
               /\ StartsWith(body, Kept(header))
          ELSE formatted = header \o body

\* C23 witness: a content with a markdown heading, too long for the space
\* its channel's header leaves, has been formatted.
C23_Witness ==
  /\ pc = "formatted"
  /\ HeadingMarks(fmt_content) # {}
  /\ Len(ReplaceHeadings(fmt_content)) > TELEGRAM_LIMIT - Len(Header(fmt_channel))
  /\ Len(formatted) = TELEGRAM_LIMIT - (MARKER_ROOM - Len(TRUNCATED))

(* ------------------------------------------------------------------ *)
(* C24                                                                 *)
(* ------------------------------------------------------------------ *)

\* the loader of the script has run
Loaded == pc \notin {"load_credentials", "load_env"}

\* the required keys the script cannot find a value for: in os.environ
\* once marketing/.env is merged into it, in marketing/.env for the bridge
KeysMissing ==
  LET have == IF script \in ProvisioningScripts THEN environ
              ELSE IF env_file = NONE THEN EmptyDict
              ELSE env_file.val
  IN Range(MissingIn(RequiredKeys(script), have))

\* the keys the printed lines name
KeysNamed ==
  {k \in Range(BridgeKeys) : \E i \in DOMAIN stdout : k \in Range(stdout[i])}

\* startup failed: exit code 1 and no request issued
StartupFailed ==
  pc = "exit" /\ exit_code = 1 /\ env = EmptyDict /\ log = <<>> /\ wire = <<>>

\* C24: credential loading. When marketing/.env is there and required keys
\* are missing, startup fails before any request is issued and the error
\* names exactly the missing keys, all of them and only them, for the
\* provisioning scripts and for the bridge.
C24_ErrorNamesExactlyMissing ==
  (Loaded /\ env_file # NONE /\ KeysMissing # {}) =>
    StartupFailed /\ KeysNamed = KeysMissing

\* what the loaders do give: startup fails before any request, the error
\* names missing keys only, and the bridge's error names all of them
C24_FailsNamingMissingKeys ==
  (Loaded /\ env_file # NONE /\ KeysMissing # {}) =>
    /\ StartupFailed
    /\ KeysNamed # {}
    /\ KeysNamed \subseteq KeysMissing
    /\ script = "discord_telegram_bridge" => KeysNamed = KeysMissing

(* ------------------------------------------------------------------ *)
(* Vocabulary of the full engine's stages                               *)
(* ------------------------------------------------------------------ *)

\* a delete request
IsDelete(e) == e.method = "delete"

\* the create request of a category
IsCategoryCreate(e) == IsChannelCreate(e) /\ e.json.type = CH_CATEGORY

\* the create request of a channel inside a category
IsChildCreate(e) == IsChannelCreate(e) /\ e.json.type # CH_CATEGORY

\* the stage a request belongs to: 1 reset, 2 role creation, 3 role
\* re-order, 4 categories and channels, 5 sends and pins
StageOf(e) ==
  CASE IsEnumerate(e) \/ IsDelete(e) -> 1
    [] IsRoleCreate(e) -> 2
    [] IsReorder(e) -> 3
    [] IsChannelCreate(e) -> 4
    [] IsSend(e) \/ IsPin(e) -> 5
    [] OTHER -> 0

\* the names of the channels the catalog puts in the category of this name
ChildrenOf(category) ==
  UNION {{Get(catalog.SERVER_STRUCTURE[k], "channels", <<>>)[j].name :
            j \in DOMAIN Get(catalog.SERVER_STRUCTURE[k], "channels", <<>>)} :
         k \in {c \in DOMAIN catalog.SERVER_STRUCTURE :
                  catalog.SERVER_STRUCTURE[c].category = category}}

\* the last category create request before request j; 0 when there is none
OwnCategory(j) ==
  LET before == {i \in 1..(j - 1) : IsCategoryCreate(log[i])}
  IN IF before = {} THEN 0
     ELSE CHOOSE i \in before : \A h \in before : h <= i

(* ------------------------------------------------------------------ *)
(* C25                                                                 *)
(* ------------------------------------------------------------------ *)

\* C25: full engine stage ordering. In every run the requests come in the
\* order reset (enumeration and deletes), role creations, role re-order,
\* category and channel creations, sends and pins, each request complete
\* before the next is issued; and a channel is created only after its own
\* category was, under the id that create request returned.
C25_StageOrder ==
  /\ \A i \in DOMAIN log : StageOf(log[i]) \in 1..5
  /\ \A i, j \in DOMAIN log : i < j => StageOf(log[i]) <= StageOf(log[j])
  /\ \A j \in DOMAIN log :
       IsChildCreate(log[j]) =>
         /\ OwnCategory(j) # 0
         /\ LET own == log[OwnCategory(j)]
            IN /\ own.outcome # "fail"
               /\ log[j].json.name \in ChildrenOf(own.json.name)
               /\ IF dry_run THEN log[j].json.parent_id = "DRY_RUN_ID"
                  ELSE \E k \in DOMAIN guild.channels :
                         /\ guild.channels[k].id = log[j].json.parent_id
                         /\ guild.channels[k].name = own.json.name
                         /\ guild.channels[k].type = CH_CATEGORY

\* C25 witness: a live run has completed with requests of all five stages,
\* a delete, a re-order, a channel inside a category and a pin among them.
C25_Witness ==
  /\ Completed
  /\ ~dry_run
  /\ \E d, r, o, c, p \in DOMAIN log :
       /\ IsDelete(log[d])
       /\ IsRoleCreate(log[r])
       /\ IsReorder(log[o])
       /\ IsChildCreate(log[c])
       /\ IsPin(log[p])

(* ------------------------------------------------------------------ *)
(* C26                                                                 *)
(* ------------------------------------------------------------------ *)

\* the place of the category of this name in SERVER_STRUCTURE
PlaceOf(category) ==
  CHOOSE k \in DOMAIN catalog.SERVER_STRUCTURE :
    catalog.SERVER_STRUCTURE[k].category = category

\* C26: category failure. When the create request of a category fails, no
\* create request is issued for any channel of that category, none of these
\* channels gets an entry in channel_ids, and the run goes on with the next
\* category (its create request is the next request) instead of aborting.
C26_CategoryFailureSkipsSubtree ==
  \A i \in DOMAIN log :
    (IsCategoryCreate(log[i]) /\ log[i].outcome = "fail") =>
      LET kids == ChildrenOf(log[i].json.name)
          k == PlaceOf(log[i].json.name)
      IN /\ \A j \in DOMAIN log :
              IsChildCreate(log[j]) => log[j].json.name \notin kids
         /\ kids \cap DOMAIN channel_ids = {}
         /\ i = Len(log) => cat_idx = k + 1
         /\ (i < Len(log) /\ k < Len(catalog.SERVER_STRUCTURE)) =>
              /\ IsCategoryCreate(log[i + 1])
              /\ log[i + 1].json.name = catalog.SERVER_STRUCTURE[k + 1].category
         /\ (pc = "exit" /\ exit_code # 0) => PlaceholderAnywhere

\* C26 witness: a run has completed in which the create request of one
\* category failed and a channel of a later category was created.
C26_Witness ==
  /\ Completed
  /\ \E i, j \in DOMAIN log :
       /\ i < j
       /\ IsCategoryCreate(log[i])
       /\ log[i].outcome = "fail"
       /\ ChildrenOf(log[i].json.name) # {}
       /\ IsChildCreate(log[j])
       /\ log[j].outcome = "ok"

(* ------------------------------------------------------------------ *)
(* C27                                                                 *)
(* ------------------------------------------------------------------ *)

\* the place of the role of this name in ROLES
RolePlaceOf(name) ==
  CHOOSE k \in DOMAIN catalog.ROLES : catalog.ROLES[k].name = name

\* the channels the catalog puts in the category at place c
ChannelsAt(c) == Get(catalog.SERVER_STRUCTURE[c], "channels", <<>>)

\* the <<category place, channel place>> of the channel of this name
ChannelPlaceOf(name) ==
  LET c == CHOOSE k \in DOMAIN catalog.SERVER_STRUCTURE :
             \E j \in DOMAIN ChannelsAt(k) : ChannelsAt(k)[j].name = name
  IN <<c, CHOOSE j \in DOMAIN ChannelsAt(c) : ChannelsAt(c)[j].name = name>>

\* the entry of PINNED_MESSAGES this message body belongs to
PinnedPlaceOf(content) ==
  CHOOSE k \in DOMAIN catalog.PINNED_MESSAGES :
    \E m \in DOMAIN catalog.PINNED_MESSAGES[k].messages :
      catalog.PINNED_MESSAGES[k].messages[m] = content

\* the place of this message body in its channel's list
MessagePlaceOf(content) ==
  CHOOSE m \in DOMAIN catalog.PINNED_MESSAGES[PinnedPlaceOf(content)].messages :
    catalog.PINNED_MESSAGES[PinnedPlaceOf(content)].messages[m] = content

\* the ids of the guild's messages with this body
MessageIdsOf(content) ==
  {guild.messages[k].id :
     k \in {j \in DOMAIN guild.messages : guild.messages[j].content = content}}

\* a failed role create leaves the role out of role_ids and is followed by
\* the create request of the next role of ROLES
FailedRoleSkipped(i) ==
  LET k == RolePlaceOf(log[i].json.name)
  IN /\ log[i].json.name \notin DOMAIN role_ids
     /\ (i = Len(log) /\ pc = "create_roles") => idx = k + 1
     /\ (i < Len(log) /\ k < Len(catalog.ROLES)) =>
          /\ IsRoleCreate(log[i + 1])
          /\ log[i + 1].json.name = catalog.ROLES[k + 1].name

\* a failed channel create leaves the channel out of channel_ids and is
\* followed by the create request of the next channel of the category, or
\* of the next category when it was the last one
FailedChannelSkipped(i) ==
  LET p == ChannelPlaceOf(log[i].json.name)
      c == p[1]
      j == p[2]
  IN /\ log[i].json.name \notin DOMAIN channel_ids
     /\ (i = Len(log) /\ pc = "create_channel") =>
          (cat_idx = c /\ ch_idx = j + 1)
     /\ (i < Len(log) /\ j < Len(ChannelsAt(c))) =>
          /\ IsChildCreate(log[i + 1])
          /\ log[i + 1].json.name = ChannelsAt(c)[j + 1].name
     /\ (i < Len(log) /\ j = Len(ChannelsAt(c))
           /\ c < Len(catalog.SERVER_STRUCTURE)) =>
          /\ IsCategoryCreate(log[i + 1])
          /\ log[i + 1].json.name = catalog.SERVER_STRUCTURE[c + 1].category

\* a failed send is never followed by a pin of that message, and is followed
\* by the send of the next message of the channel
FailedSendSkipped(i) ==
  LET content == log[i].json.content
      entry == catalog.PINNED_MESSAGES[PinnedPlaceOf(content)]
      m == MessagePlaceOf(content)
  IN /\ \A j \in DOMAIN log :
          IsPin(log[j]) => log[j].path[4] \notin MessageIdsOf(content)
     /\ (i = Len(log) /\ pc = "pin_channel"
           /\ pin_idx = PinnedPlaceOf(content)) => msg_idx = m + 1
     /\ i < Len(log) => ~IsPin(log[i + 1])
     /\ (i < Len(log) /\ m < Len(entry.messages)) =>
          /\ IsSend(log[i + 1])
          /\ log[i + 1].path = log[i].path
          /\ log[i + 1].json.content = entry.messages[m + 1]

\* the failed create requests of roles and channels and the failed sends
FailedItems ==
  {i \in DOMAIN log :
     /\ log[i].outcome = "fail"
     /\ IsRoleCreate(log[i]) \/ IsChildCreate(log[i]) \/ IsSend(log[i])}

\* every failed item is skipped and its next sibling is processed
FailedItemsSkipped ==
  \A i \in FailedItems :
    /\ IsRoleCreate(log[i]) => FailedRoleSkipped(i)
    /\ IsChildCreate(log[i]) => FailedChannelSkipped(i)
    /\ IsSend(log[i]) => FailedSendSkipped(i)

\* C27 as stated: partial-item failure. A failed create request of a role
\* or a channel, or a failed send, leaves the item out of the name-to-id map
\* (no pin is attempted for the message), the next sibling item is
\* processed, and a run with such a failure is never aborted.
C27_PartialFailureNeverAborts ==
  /\ FailedItemsSkipped
  /\ (FailedItems # {} /\ pc = "exit" /\ exit_code # 0) => PlaceholderAnywhere

\* C27 amended: partial-item failure. A failed create request of a role or
\* a channel, or a failed send, leaves the item out of the name-to-id map
\* (no pin is attempted for the message) and the next sibling item is
\* processed; a run with such a failure is aborted only by the check of the
\* required roles, when the failed role is one of them, or by the
\* placeholder scan.
C27_PartialFailureAbortsOnlyForRequiredRole ==
  /\ FailedItemsSkipped
  /\ (FailedItems # {} /\ pc = "exit" /\ exit_code # 0) =>
       \/ PlaceholderAnywhere
       \/ \E i \in FailedItems :
            /\ IsRoleCreate(log[i])
            /\ log[i].json.name \in Range(RequiredRoles)
            /\ log[i].json.name \in Range(MissingRoles(role_ids))

\* C27 witness: a run has completed in which the create request of a channel
\* failed and the next channel of the same category was created.
C27_Witness ==
  /\ Completed
  /\ \E i \in FailedItems :
       /\ IsChildCreate(log[i])
       /\ i < Len(log)
       /\ IsChildCreate(log[i + 1])
       /\ log[i + 1].outcome = "ok"
       /\ log[i + 1].json.name \in DOMAIN channel_ids

(* ------------------------------------------------------------------ *)
(* C28                                                                 *)
(* ------------------------------------------------------------------ *)

\* the delete requests issued for the channel or category of this id
DeletesOf(ch_id) ==
  {i \in DOMAIN log : IsDelete(log[i]) /\ log[i].path = ChannelPath(ch_id)}

\* how many of the enumerated channels the delete loop has gone through
DeleteProgress ==
  CASE pc = "delete_default_channels" -> 0
    [] pc = "delete_loop" -> idx - 1
    [] OTHER -> Len(channels)

\* C28: reset stage deletes. In a live run every enumerated channel or
\* category the delete loop has gone through got exactly one delete request,
\* in the order of the enumeration; a failed delete is followed by the
\* delete of the next enumerated channel and never ends the run; in a
\* dry-run no delete request is issued.
C28_ResetDeletes ==
  LET deletes == SelectSeq(log, IsDelete)
  IN /\ dry_run => deletes = <<>>
     /\ ~dry_run =>
          /\ Len(deletes) = DeleteProgress
          /\ \A k \in 1..DeleteProgress :
               /\ deletes[k].path = ChannelPath(Get(channels[k], "id", ""))
               /\ Cardinality(DeletesOf(Get(channels[k], "id", ""))) = 1
     /\ (pc = "exit" /\ exit_code # 0 /\ \E k \in DOMAIN deletes :
                                           deletes[k].outcome = "fail") =>
          (PlaceholderAnywhere \/ MissingRoles(role_ids) # <<>>)

\* C28 witness: a live run has completed in which two channels were
\* enumerated, the delete of the first failed and the second was deleted.
C28_Witness ==
  /\ Completed
  /\ ~dry_run
  /\ Len(channels) = 2
  /\ \E i, j \in DOMAIN log :
       /\ i < j
       /\ IsDelete(log[i])
       /\ log[i].outcome = "fail"
       /\ IsDelete(log[j])
       /\ log[j].outcome = "ok"

(* ------------------------------------------------------------------ *)
(* C29                                                                 *)
(* ------------------------------------------------------------------ *)

\* the channel id a send or pin request is addressed to
TargetOf(e) == e.path[2]

\* the requests before request j that sent this body to this channel and
\* were answered with an id
AcceptedSends(j, ch_id, content) ==
  {i \in 1..(j - 1) :
     /\ IsSend(log[i])
     /\ log[i].outcome = "ok"
     /\ TargetOf(log[i]) = ch_id
     /\ log[i].json.content = content}

\* the send requests addressed to this channel, in the order issued
SendsTo(ch_id) ==
  SelectSeq(log, LAMBDA e : IsSend(e) /\ TargetOf(e) = ch_id)

\* C29: pin stage send-then-pin. Every pin request directly follows a
\* successful send to the same channel and names the id the service gave
\* the message of that send; the sends to one channel carry the channel's
\* messages in catalog order, each once; and a failed send, or a send whose
\* answer has no id, is not followed by a pin request.
C29_SendThenPin ==
  /\ \A j \in DOMAIN log :
       IsPin(log[j]) =>
         /\ j > 1
         /\ IsSend(log[j - 1])
         /\ log[j - 1].outcome = "ok"
         /\ log[j - 1].run = log[j].run
         /\ TargetOf(log[j - 1]) = TargetOf(log[j])
         /\ \E k \in DOMAIN guild.messages :
              /\ guild.messages[k].id = log[j].path[4]
              /\ guild.messages[k].channel_id = TargetOf(log[j])
              /\ guild.messages[k].content = log[j - 1].json.content
              /\ AcceptedSends(j, TargetOf(log[j]),
                               guild.messages[k].content) = {j - 1}
  /\ \A i \in DOMAIN log :
       (IsSend(log[i]) /\ log[i].outcome \in {"fail", "anon"}
          /\ i < Len(log)) => ~IsPin(log[i + 1])
  /\ \A k \in DOMAIN catalog.PINNED_MESSAGES :
       LET entry == catalog.PINNED_MESSAGES[k]
       IN entry.name \in DOMAIN channel_ids =>
            LET sends == SendsTo(channel_ids[entry.name])
            IN /\ Len(sends) <= Len(entry.messages)
               /\ \A m \in DOMAIN sends :
                    sends[m].json.content = entry.messages[m]

\* C29 witness: a live run has completed in which, in one channel, a send
\* was answered without an id and the next message was sent and pinned.
C29_Witness ==
  /\ Completed
  /\ ~dry_run
  /\ \E i \in DOMAIN log :
       /\ i + 2 \in DOMAIN log
       /\ IsSend(log[i])
       /\ log[i].outcome = "anon"
       /\ IsSend(log[i + 1])
       /\ TargetOf(log[i + 1]) = TargetOf(log[i])
       /\ log[i + 1].outcome = "ok"
       /\ IsPin(log[i + 2])

(* ------------------------------------------------------------------ *)
(* C30                                                                 *)
(* ------------------------------------------------------------------ *)

\* whether the catalog declares a channel of this name as a forum
DeclaredForum(name) ==
  \E c \in DOMAIN catalog.SERVER_STRUCTURE :
    \E j \in DOMAIN ChannelsAt(c) :
      ChannelsAt(c)[j].name = name /\ ChannelsAt(c)[j].type = CH_FORUM

\* the entries of PINNED_MESSAGES whose channel has no recorded id or is
\* declared as a forum
SkippedEntries ==
  {k \in DOMAIN catalog.PINNED_MESSAGES :
     \/ catalog.PINNED_MESSAGES[k].name \notin DOMAIN channel_ids
     \/ DeclaredForum(catalog.PINNED_MESSAGES[k].name)}

\* the bodies of the guild's messages with this id
BodiesOf(m_id) ==
  {guild.messages[k].content :
     k \in {j \in DOMAIN guild.messages : guild.messages[j].id = m_id}}

\* C30: pin stage skips. No send carries a message of a channel that has no
\* recorded id or is declared as a forum, no pin names such a message, and
\* no send or pin request is addressed to the id recorded for a forum
\* channel or to a forum channel of the guild.
C30_PinStageSkips ==
  /\ \A k \in SkippedEntries :
       LET entry == catalog.PINNED_MESSAGES[k]
       IN \A i \in DOMAIN log :
            /\ IsSend(log[i]) => log[i].json.content \notin Range(entry.messages)
            /\ IsPin(log[i]) =>
                 BodiesOf(log[i].path[4]) \cap Range(entry.messages) = {}
            /\ (IsSend(log[i]) \/ IsPin(log[i])) =>
                 Get(channel_ids, entry.name, "") # TargetOf(log[i])
  /\ \A i \in DOMAIN log :
       (IsSend(log[i]) \/ IsPin(log[i])) =>
         \A k \in DOMAIN guild.channels :
           guild.channels[k].id = TargetOf(log[i]) =>
             guild.channels[k].type # CH_FORUM

\* C30 witness: a live run has completed in which a forum channel with
\* pinned messages was created, the creation of another channel with pinned
\* messages failed, and a message was pinned in a third.
C30_Witness ==
  /\ Completed
  /\ ~dry_run
  /\ \E f, n \in SkippedEntries :
       /\ DeclaredForum(catalog.PINNED_MESSAGES[f].name)
       /\ catalog.PINNED_MESSAGES[f].name \in DOMAIN channel_ids
       /\ catalog.PINNED_MESSAGES[f].messages # <<>>
       /\ catalog.PINNED_MESSAGES[n].name \notin DOMAIN channel_ids
       /\ catalog.PINNED_MESSAGES[n].messages # <<>>
  /\ \E i \in DOMAIN log : IsPin(log[i]) /\ log[i].outcome = "ok"

(* ------------------------------------------------------------------ *)
(* C31                                                                 *)
(* ------------------------------------------------------------------ *)

\* the catalog's definition of the channel of this name
ChannelDefOf(name) ==
  ChannelsAt(ChannelPlaceOf(name)[1])[ChannelPlaceOf(name)[2]]

\* the topic the catalog defines for the channel this request creates; ""
\* for a category and for a channel without topic
TopicDefined(e) ==
  IF IsChildCreate(e) THEN Get(ChannelDefOf(e.json.name), "topic", "") ELSE ""

\* whether the request carries this field
Carries(e, field) == field \in DOMAIN e.json

\* C31 as stated: channel creation payload, topic. A create request carries
\* the topic field, with the catalog's topic, exactly when a topic is
\* defined and the kind is neither category nor forum; the create request
\* of a forum channel has no topic field.
C31_TopicUnlessCategoryOrForum ==
  \A i \in DOMAIN log :
    IsChannelCreate(log[i]) =>
      /\ Carries(log[i], "topic") <=>
           (StrTruthy(TopicDefined(log[i])) /\ log[i].json.type # CH_FORUM)
      /\ Carries(log[i], "topic") => log[i].json.topic = TopicDefined(log[i])

\* C31 amended: channel creation payload, topic. A create request carries
\* the topic field, with the catalog's topic, exactly when a topic is
\* defined and the kind is not category; the create request of a forum
\* channel carries its topic in the topic field like any other channel.
C31_TopicUnlessCategory ==
  \A i \in DOMAIN log :
    IsChannelCreate(log[i]) =>
      /\ Carries(log[i], "topic") <=> StrTruthy(TopicDefined(log[i]))
      /\ Carries(log[i], "topic") => log[i].json.topic = TopicDefined(log[i])
      /\ IsCategoryCreate(log[i]) => ~Carries(log[i], "topic")

\* C31 witness: the create requests of a category, of a text channel with a
\* topic and of a forum channel with a topic have been issued, the last two
\* carrying the topic field.
C31_Witness ==
  \E c, t, f \in DOMAIN log :
    /\ IsCategoryCreate(log[c])
    /\ IsChildCreate(log[t])
    /\ log[t].json.type = CH_TEXT
    /\ Carries(log[t], "topic")
    /\ IsChildCreate(log[f])
    /\ log[f].json.type = CH_FORUM
    /\ StrTruthy(TopicDefined(log[f]))
    /\ Carries(log[f], "topic")

(* ------------------------------------------------------------------ *)
(* Full engine over catalogs whose channel definitions vary            *)
(* (setup_discord.py 1761-1785: ch_def's type, slowmode and            *)
(* thread_rate_limit keys)                                             *)
(* ------------------------------------------------------------------ *)

\* how a channel definition may differ from the catalog's: its kind, its
\* slowmode key (absent, 0, or seconds) and its thread_rate_limit key
\* (absent, or seconds other than the default); <<>> stands for absent
Variations ==
  [type : {CH_TEXT, CH_VOICE, CH_ANNOUNCEMENT, CH_FORUM},
   slowmode : {<<>>, <<0>>, <<3>>},
   thread_rate_limit : {<<>>, <<60>>}]

\* the definition with these keys
Vary(ch_def, v) ==
  [k \in DOMAIN ch_def \ {"slowmode", "thread_rate_limit"} |->
     IF k = "type" THEN v.type ELSE ch_def[k]]
  @@ (IF v.slowmode = <<>> THEN EmptyDict
      ELSE [slowmode |-> v.slowmode[1]])
  @@ (IF v.thread_rate_limit = <<>> THEN EmptyDict
      ELSE [thread_rate_limit |-> v.thread_rate_limit[1]])

\* the structure with the definition of the channel of this name varied
VaryChannel(structure, name, v) ==
  [c \in DOMAIN structure |->
     [structure[c] EXCEPT
        !.channels = [j \in DOMAIN @ |->
                        IF @[j].name = name THEN Vary(@[j], v) ELSE @[j]]]]

\* the cut-down catalog, free of placeholders, with one channel varied
VariedCatalogs ==
  {[SmallCatalog(<<0, 0>>) EXCEPT
      !.SERVER_STRUCTURE = VaryChannel(@, name, v)] :
     name \in Range(SmallChannels) \cup {"price-ticker"}, v \in Variations}

\* a run of the full engine over a varied catalog, every request answered
InitVaried ==
  /\ catalog \in VariedCatalogs
  /\ budget = 0
  /\ dry_run \in BOOLEAN
  /\ guild = DefaultGuild
  /\ guild0 = guild
  /\ log = <<>>
  /\ run_no = 1
  /\ Start("delete_default_channels")
  /\ Idle

SpecVaried == InitVaried /\ [][Next]_vars

(* ------------------------------------------------------------------ *)
(* C32                                                                 *)
(* ------------------------------------------------------------------ *)

\* C32: channel creation payload, rate attributes. A create request carries
\* rate_limit_per_user exactly when the channel is defined as plain text
\* with a non-zero slowmode, with that value; it carries
\* default_thread_rate_limit_per_user exactly when the channel is defined
\* as a forum, with the defined thread_rate_limit or 300 when none is
\* defined; the create request of a category carries neither.
C32_RateAttributes ==
  \A i \in DOMAIN log :
    /\ IsCategoryCreate(log[i]) =>
         /\ ~Carries(log[i], "rate_limit_per_user")
         /\ ~Carries(log[i], "default_thread_rate_limit_per_user")
    /\ IsChildCreate(log[i]) =>
         LET ch_def == ChannelDefOf(log[i].json.name)
         IN /\ log[i].json.type = ch_def.type
            /\ Carries(log[i], "rate_limit_per_user") <=>
                 (ch_def.type = CH_TEXT /\ Get(ch_def, "slowmode", 0) # 0)
            /\ Carries(log[i], "rate_limit_per_user") =>
                 log[i].json.rate_limit_per_user = ch_def.slowmode
            /\ Carries(log[i], "default_thread_rate_limit_per_user") <=>
                 ch_def.type = CH_FORUM
            /\ Carries(log[i], "default_thread_rate_limit_per_user") =>
                 log[i].json.default_thread_rate_limit_per_user =
                   IF "thread_rate_limit" \in DOMAIN ch_def
                   THEN ch_def.thread_rate_limit ELSE 300

\* C32 witness: a run has completed with the create request of a forum
\* channel defined without thread_rate_limit, carrying the default, and the
\* create request of a text channel carrying its slowmode.
C32_Witness ==
  /\ Completed
  /\ \E f, t \in DOMAIN log :
       /\ IsChildCreate(log[f])
       /\ log[f].json.type = CH_FORUM
       /\ "thread_rate_limit" \notin DOMAIN ChannelDefOf(log[f].json.name)
       /\ log[f].json.default_thread_rate_limit_per_user = 300
       /\ IsChildCreate(log[t])
       /\ log[t].json.type = CH_TEXT
       /\ Carries(log[t], "rate_limit_per_user")

(* ------------------------------------------------------------------ *)
(* C33                                                                 *)
(* ------------------------------------------------------------------ *)

ComparedRoleMaps == RoleMaps \cup {[n \in {"Unverified"} |-> ""]}

\* public-role ids the two builders are compared on
ComparedEveryoneIds == {GUILD_ID, "9"}

\* C34: the variant's overwrite builder and the full engine's compiler agree
\* on read_only. For every role map and non-empty public-role id
\* build_read_only_overwrites returns the list _build_overwrites returns
\* for "read_only", and every create request of the variant carries that
\* list for the server's roles.
C34_ReadOnlyBuildersAgree ==
  /\ \A rids \in ComparedRoleMaps :
       \A everyone_role_id \in ComparedEveryoneIds :
         build_read_only_overwrites(everyone_role_id, rids) =
           _build_overwrites("read_only", everyone_role_id, rids)
  /\ \A i \in DOMAIN log :
       IsChannelCreate(log[i]) =>
         log[i].json.permission_overwrites =
           _build_overwrites("read_only", GUILD_ID, RoleIdsOf(guild.roles))

\* C34 witness: the variant has created a channel on a server that has the
\* Unverified role, with two overwrite records.
C34_Witness ==
  \E i \in DOMAIN log :
    /\ IsChannelCreate(log[i])
    /\ log[i].outcome = "ok"
    /\ StrTruthy(Get(RoleIdsOf(guild.roles), "Unverified", ""))
    /\ Len(log[i].json.permission_overwrites) = 2

(* ------------------------------------------------------------------ *)
(* Transport against a service that may answer 429 without end         *)
(* (setup_discord.py 102-116, discord_telegram_bridge.py 82-91)        *)
(* ------------------------------------------------------------------ *)

\* whether the call's requests, answers, waits and printed lines are still
\* recorded: the first MaxRetries + 1 attempts are, later ones repeat them
Recording == Len(answers) <= MaxRetries

\* the answers of the service in this specification: one body for each
\* status but 429, which comes with or without a retry-after of zero
LiveResponses ==
  {r \in Responses :
     r.body \in {"{id: 41}", "", "{retry_after: 0}", "{message: slow down}"}}

\* the calls of this specification: a post of DiscordClient and discord_get
LiveCalls == {c \in ClientCalls : c.method = "post" \/ c.impl = "discord_get"}

\* the request of one attempt; the service is free to answer 429 again
RequestForever ==
  /\ pc = "request"
  /\ \E r \in LiveResponses :
       /\ resp' = r
       /\ IF Recording
          THEN /\ wire' = Append(wire, [method |-> call.method,
                                        path |-> call.path,
                                        json |-> call.json, at |-> clock])
               /\ answers' = Append(answers, [status |-> r.status,
                                              body |-> r.body, at |-> clock])
          ELSE UNCHANGED << wire, answers >>
  /\ pc' = "response"
  /\ UNCHANGED << call, ret, clock, stdout >>

\* the 429 branch: the wait, then `continue`
RateLimitedForever ==
  /\ pc = "response"
  /\ resp.status = 429
  /\ IF Recording
     THEN /\ stdout' = IF call.impl = "_request"
                       THEN Append(stdout, [kind |-> "RATE LIMIT",
                                            retry_after |-> RetryAfter(resp)])
                       ELSE stdout
          /\ \E over \in 0..MaxOverrun :
               clock' = clock + RetryAfter(resp) + over
     ELSE UNCHANGED << stdout, clock >>
  /\ pc' = "request"
  /\ UNCHANGED << call, resp, ret, wire, answers >>

\* one live call of the transport, about to start
InitTransportLive ==
  /\ InitTransport
  /\ call \in LiveCalls
  /\ ~dry_run

NextTransportLive ==
  \/ Enter /\ UNCHANGED offstage
  \/ RequestForever /\ UNCHANGED offstage
  \/ RateLimitedForever /\ UNCHANGED offstage
  \/ Return /\ UNCHANGED offstage

\* the process keeps running: a request is answered, a sleep ends, a
\* branch is taken
SpecTransportLive ==
  InitTransportLive /\ [][NextTransportLive]_vars /\ WF_vars(NextTransportLive)

(* ------------------------------------------------------------------ *)
(* C35                                                                 *)
(* ------------------------------------------------------------------ *)

\* C35: transport termination. Once an attempt of a live call is answered
\* with a status other than 429 the call returns; it returns in no other
\* way, so a call whose attempts are all answered with 429 never returns.
C35_ReturnsOnlyOnOtherStatus ==
  /\ (pc = "response" /\ resp.status # 429) ~> (pc = "returned")
  /\ [](pc = "returned" => (resp # NONE /\ resp.status # 429))
  /\ [](pc = "response" => resp.status = 429) => [](pc # "returned")

\* C35 witness: a live call has returned after more than MaxRetries answers
\* of status 429.
C35_Witness ==
  /\ pc = "returned"
  /\ Len(answers) = MaxRetries + 1
  /\ \A k \in DOMAIN answers : answers[k].status = 429

(* ------------------------------------------------------------------ *)
(* Full engine from main's prompt on (setup_discord.py 1929-1943)      *)
(* ------------------------------------------------------------------ *)

\* what the operator may type: yes in several spellings, with and without
\* blanks around it, and lines that are not yes
TypedLines ==
  { <<"y", "e", "s">>, <<"Y", "E", "S">>, <<" ", "Y", "e", "s", "\t">>,
    <<>>, <<" ">>, <<"y">>, <<"n", "o">>, <<"y", "e", "s", "!">>,
    <<"y", " ", "e", "s">>, <<"y", "e", "s", "s">>, <<"o", "y", "e", "s">> }

\* a process of the full engine that has loaded its credentials, with the
\* operator's line (or none) waiting at the keyboard
InitConfirm ==
  /\ catalog = SmallCatalog(<<0, 0>>)
  /\ budget = 0
  /\ dry_run \in BOOLEAN
  /\ guild = DefaultGuild
  /\ guild0 = guild
  /\ log = <<>>
  /\ run_no = 1
  /\ Start("confirm")
  /\ Offline
  /\ Still
  /\ stdin \in {Line(t) : t \in TypedLines} \cup {NONE}

NextConfirm == ConfirmRun \/ Next

SpecConfirm == InitConfirm /\ [][NextConfirm]_vars

(* ------------------------------------------------------------------ *)
(* C36                                                                 *)
(* ------------------------------------------------------------------ *)

\* whether the typed line is yes in any mix of cases with nothing but blanks
\* before and after it
TypedYes ==
  /\ stdin # NONE
  /\ \E a, b \in DOMAIN stdin.val :
       /\ b = a + 2
       /\ stdin.val[a] \in {"y", "Y"}
       /\ stdin.val[a + 1] \in {"e", "E"}
       /\ stdin.val[b] \in {"s", "S"}
       /\ \A i \in DOMAIN stdin.val :
            (i < a \/ i > b) => stdin.val[i] \in {" ", "\t"}

\* C36: destructive-run confirmation. In a live run of the full engine a
\* request is issued, or the server changed, or any step of the run taken,
\* only if the line typed at the prompt, trimmed and lower-cased, is yes;
\* after any other answer the process has ended with no request issued and
\* the server as it was.
C36_NoRequestUnlessConfirmed ==
  ~dry_run =>
    /\ (log # <<>> \/ guild # guild0 \/ pc \notin {"confirm", "exit"})
         => TypedYes
    /\ (pc # "confirm" /\ ~TypedYes) =>
         /\ pc = "exit"
         /\ exit_code = IF stdin = NONE THEN 1 ELSE 0
         /\ log = <<>>
         /\ guild = guild0
    /\ (pc = "exit" /\ log = <<>>) => ~TypedYes

\* C36 witness: a live run has deleted the server's channels after the
\* operator typed yes with capitals and blanks around it.
C36_Witness ==
  /\ ~dry_run
  /\ stdin = Line(<<" ", "Y", "e", "s", "\t">>)
  /\ \E i \in DOMAIN log : IsDelete(log[i]) /\ log[i].outcome = "ok"
  /\ guild.channels # guild0.channels

(* ------------------------------------------------------------------ *)
(* C37                                                                 *)
(* ------------------------------------------------------------------ *)

\* the requests of the current run that the service answered with success
Succeeded == {i \in DOMAIN log : log[i].outcome = "ok" /\ log[i].run = run_no}

\* the id the service returned to the successful role create request i: the
\* service appends every role it creates and no role is ever deleted
ReturnedRoleId(i) ==
  LET later == {j \in Succeeded : j > i /\ IsRoleCreate(log[j])}
  IN guild.roles[Len(guild.roles) - Cardinality(later)].id

\* the id the service returned to the successful channel create request i:
\* the service appends every channel it creates, and a run deletes before
\* it creates
ReturnedChannelId(i) ==
  LET later == {j \in Succeeded : j > i /\ IsChannelCreate(log[j])}
  IN guild.channels[Len(guild.channels) - Cardinality(later)].id

\* C37: run-state integrity in the full engine. At every point of a live
\* run each entry of role_ids pairs the name of a role of the catalog with
\* the id returned by a successful create request of that role in this run,
\* each entry of channel_ids does so for a channel of the catalog, and every
\* send and pin request of the run is addressed to an id in channel_ids.
C37_RunStateIntegrity ==
  ~dry_run =>
    /\ \A n \in DOMAIN role_ids :
         /\ \E k \in DOMAIN catalog.ROLES : catalog.ROLES[k].name = n
         /\ \E i \in Succeeded :
              /\ IsRoleCreate(log[i])
              /\ log[i].json.name = n
              /\ ReturnedRoleId(i) = role_ids[n]
    /\ \A n \in DOMAIN channel_ids :
         /\ \E c \in DOMAIN catalog.SERVER_STRUCTURE : n \in
              {ChannelsAt(c)[j].name : j \in DOMAIN ChannelsAt(c)}
         /\ \E i \in Succeeded :
              /\ IsChildCreate(log[i])
              /\ log[i].json.name = n
              /\ ReturnedChannelId(i) = channel_ids[n]
    /\ \A i \in DOMAIN log :
         ((IsSend(log[i]) \/ IsPin(log[i])) /\ log[i].run = run_no) =>
           \E n \in DOMAIN channel_ids : channel_ids[n] = TargetOf(log[i])

\* C37 witness: a live run has completed on a server that had a channel
\* named general already, whose delete failed, with the new general
\* channel's id in channel_ids and a message pinned there.
C37_Witness ==
  /\ Completed
  /\ ~dry_run
  /\ \E k \in DOMAIN guild0.channels :
       /\ guild0.channels[k].name = "general"
       /\ "general" \in DOMAIN channel_ids
       /\ channel_ids["general"] # guild0.channels[k].id
       /\ \E j \in DOMAIN guild.channels : guild.channels[j] = guild0.channels[k]
       /\ \E i \in DOMAIN log :
            IsPin(log[i]) /\ TargetOf(log[i]) = channel_ids["general"]

(* ------------------------------------------------------------------ *)
(* Bridge filtering                                                    *)
(* ------------------------------------------------------------------ *)

\* the messages of a channel the relay must never see: the ones without
\* text and the ones a bot wrote
Unforwardable(m) == m.content = <<>> \/ m.author.bot

\* the messages of the bridged channels with this id
FeedMessages(ch_name, m_id) ==
  {k \in DOMAIN feed[ch_name] : feed[ch_name][k].id = m_id}

\* C38: in every poll, whatever reaches the relay (sent, failed or only
\* printed in dry-run) is a message of its channel that has a content and
\* whose author is not flagged as a bot; no empty message and no bot's
\* message is ever handed to telegram_send
C38_NeverForwardsEmptyOrBot ==
  \A i \in DOMAIN relay :
    /\ FeedMessages(relay[i].channel, relay[i].id) # {}
    /\ \A k \in FeedMessages(relay[i].channel, relay[i].id) :
         ~Unforwardable(feed[relay[i].channel][k])

\* a second poll is over; the channel held an empty message or a bot's
\* message next to a member's text, the text was forwarded and the
\* checkpoint has gone past the skipped message
C38_Witness ==
  /\ pc = "polled"
  /\ run_no > 1
  /\ \E k \in DOMAIN feed["announcements"] :
       /\ Unforwardable(feed["announcements"][k])
       /\ Get(state, "announcements", "") = feed["announcements"][k].id
  /\ \E i \in DOMAIN relay : relay[i].channel = "announcements"

(* ------------------------------------------------------------------ *)
(* Bridge, continuous mode: the polling loop of main (331-342) with    *)
(* the operator's Ctrl+C                                               *)
(* ------------------------------------------------------------------ *)

NextBridgeLive ==
  \/ NextBridge
  \/ KeyboardInterrupt

\* the bridge is started on channels that hold members' texts only
InitBridgeLive ==
  /\ InitBridge
  /\ \A k \in DOMAIN feed["announcements"] :
       feed["announcements"][k] = Message("announcements", k, TextPost)

\* a sleep of main's loop comes to its end
SpecBridgeLive ==
  InitBridgeLive /\ [][NextBridgeLive]_vars /\ WF_vars(BridgePoll)

\* an exception left the poll of this run
RaisedIn(r) ==
  \/ \E i \in DOMAIN log : log[i].run = r /\ log[i].outcome = "raise"
  \/ \E i \in DOMAIN relay : relay[i].run = r /\ relay[i].outcome = "raise"

\* the step that starts poll r + 1 after poll r
NextPollStep ==
  /\ pc' = "check_and_forward"
  /\ run_no' = run_no + 1
  /\ clock' = clock + PollInterval

\* C39: in continuous mode an exception raised inside a poll does not end
\* the loop: the loop is left by a keyboard interrupt only, the handler of
\* the exception is left only for the next poll, the same interval after it
\* as after a poll that returned, and that next poll does come unless the
\* operator interrupts first
C39_ExceptionKeepsPolling ==
  /\ [][(~once /\ pc # "exit" /\ pc' = "exit") => KeyboardInterrupt]_vars
  /\ [][(pc = "except" /\ pc' # "except")
          => (NextPollStep \/ KeyboardInterrupt)]_vars
  /\ [](pc = "except" => (~once /\ exit_code = -1 /\ RaisedIn(run_no)))
  /\ \A r \in 1..(MaxRuns - 1) :
       (pc = "except" /\ run_no = r)
         ~> ((pc = "check_and_forward" /\ run_no = r + 1) \/ pc = "exit")

\* the first poll raised, the process is still there and, one interval
\* later, has fetched the channels again in its second poll
C39_Witness ==
  /\ ~once
  /\ RaisedIn(1)
  /\ run_no = 2
  /\ clock = PollInterval
  /\ pc = "bridge_channel"
  /\ exit_code = -1

============================================================================
